---- MODULE Spec2Model ----
(***************************************************************************)
(* Model of the Lettermint Go SDK's webhook verifier (webhook.go):         *)
(* VerifyWebhook, VerifyWebhookFromRequest, parseSignature, computeHMAC    *)
(* and secureCompare, with the library routines they call (strings.Split,  *)
(* strings.SplitN, strings.TrimSpace, strconv.ParseInt, fmt's %d,          *)
(* hex.EncodeToString, json.Unmarshal) computed character by character.    *)
(*                                                                         *)
(* A Go string or []byte is a sequence of one-character strings.  int64    *)
(* and time.Duration are two's-complement integers of IntBits bits, and    *)
(* time.Second is Second duration units, so that the arithmetic of the     *)
(* tolerance gate wraps in the model where it wraps in the program.        *)
(***************************************************************************)
EXTENDS Integers, Sequences, FiniteSets, TLC

VARIABLES now, pc, fn, args, req, result, tamper, bodyState, calls, frames,
          client, builder, emailPc, sendResult, requests, lastCall, said,
          newCall, httpClients, builders, payloads, setOn, sentBy

vars == <<now, pc, fn, args, req, result, tamper, bodyState, calls, frames,
          client, builder, emailPc, sendResult, requests, lastCall, said,
          newCall, httpClients, builders, payloads, setOn, sentBy>>

\* the state of the webhook verifier's callers
webhookVars == <<now, pc, fn, args, req, result, tamper, bodyState>>

\* the state of the email client, of a builder and of its Send call; lastCall
\* is the last call made on the builder and the builder before it, said is
\* what the calls since Email passed to the list setters and to IdempotencyKey
emailVars == <<client, builder, emailPc, sendResult, requests, lastCall, said>>

\* the state of the calls of VerifyWebhook that run concurrently
concurrentVars == <<calls, frames>>

\* a call of New and the http.Client values that exist
configVars == <<newCall, httpClients>>

\* the builders two goroutines made from one client: the builders, the
\* payloads they point to, the values set on each and the requests each sent
sharedVars == <<builders, payloads, setOn, sentBy>>

(***************************************************************************)
(* Bounds of the model.                                                    *)
(***************************************************************************)
\* width of int64 / time.Duration in the model
IntBits == 8
\* time.Second in duration units
Second == 4
\* HMAC block size in bytes: shorter keys are zero-padded to it
BlockSize == 2
\* the clock runs from StartNow to MaxNow
StartNow == 2
MaxNow == 3

MinInt == -(2 ^ (IntBits - 1))
MaxInt == (2 ^ (IntBits - 1)) - 1

\* two's-complement wrap-around of Go's int64 arithmetic
Wrap(x) == ((x + 2 ^ (IntBits - 1)) % (2 ^ IntBits)) - 2 ^ (IntBits - 1)

Abs(x) == IF x < 0 THEN -x ELSE x

(***************************************************************************)
(* Characters.                                                             *)
(***************************************************************************)
QUOTE == "\""
NUL == "NUL"
DigitChars == <<"0", "1", "2", "3", "4", "5", "6", "7", "8", "9">>
HexChars == <<"0", "1", "2", "3", "4", "5", "6", "7", "8", "9", "a", "b", "c", "d", "e", "f">>

IsDigit(c) == \E i \in 1..10 : DigitChars[i] = c
DigitVal(c) == (CHOOSE i \in 1..10 : DigitChars[i] = c) - 1

\* unicode.IsSpace on the characters of the model
IsSpace(c) == c \in {" ", "\t", "\n", "\r"}

\* the byte value of a character (ASCII)
ByteOf(c) ==
    CASE c = NUL -> 0
      [] c = "\t" -> 9
      [] c = "\n" -> 10
      [] c = "\r" -> 13
      [] c = " " -> 32
      [] c = QUOTE -> 34
      [] c = "+" -> 43
      [] c = "," -> 44
      [] c = "-" -> 45
      [] c = "." -> 46
      [] IsDigit(c) -> 48 + DigitVal(c)
      [] c = ":" -> 58
      [] c = "=" -> 61
      [] c = "[" -> 91
      [] c = "]" -> 93
      [] c = "a" -> 97
      [] c = "b" -> 98
      [] c = "c" -> 99
      [] c = "d" -> 100
      [] c = "e" -> 101
      [] c = "f" -> 102
      [] c = "i" -> 105
      [] c = "j" -> 106
      [] c = "k" -> 107
      [] c = "l" -> 108
      [] c = "n" -> 110
      [] c = "t" -> 116
      [] c = "u" -> 117
      [] c = "v" -> 118
      [] c = "x" -> 120
      [] c = "{" -> 123
      [] c = "}" -> 125

(***************************************************************************)
(* Library routines on strings.                                            *)
(***************************************************************************)
\* strings.IndexByte: the first position of c in s, 0 when there is none
IndexByte(s, c) ==
    IF \E i \in 1..Len(s) : s[i] = c
    THEN CHOOSE i \in 1..Len(s) : s[i] = c /\ \A j \in 1..(i - 1) : s[j] /= c
    ELSE 0

RECURSIVE Split(_, _)
\* strings.Split(s, sep) for a one-character separator
Split(s, sep) ==
    LET i == IndexByte(s, sep)
    IN IF i = 0 THEN <<s>>
       ELSE <<SubSeq(s, 1, i - 1)>> \o Split(SubSeq(s, i + 1, Len(s)), sep)

\* a mutant of SplitN2: the part is split at every separator
SplitN2_Every(s, sep) == Split(s, sep)

\* strings.SplitN(s, sep, 2)
SplitN2(s, sep) ==
    LET i == IndexByte(s, sep)
    IN IF i = 0 THEN <<s>>
       ELSE <<SubSeq(s, 1, i - 1), SubSeq(s, i + 1, Len(s))>>

\* strings.TrimSpace
TrimSpace(s) ==
    LET keep == {i \in 1..Len(s) : ~IsSpace(s[i])}
    IN IF keep = {} THEN <<>>
       ELSE SubSeq(s, CHOOSE i \in keep : \A j \in keep : i <= j,
                      CHOOSE i \in keep : \A j \in keep : j <= i)

RECURSIVE Join(_, _)
\* strings.Join(parts, sep)
Join(parts, sep) ==
    IF Len(parts) = 0 THEN <<>>
    ELSE IF Len(parts) = 1 THEN parts[1]
    ELSE parts[1] \o <<sep>> \o Join(Tail(parts), sep)

RECURSIVE DigitsValue(_, _)
\* the value of a string of decimal digits, most significant first
DigitsValue(s, acc) ==
    IF Len(s) = 0 THEN acc ELSE DigitsValue(Tail(s), acc * 10 + DigitVal(s[1]))

\* a mutant of ParseInt: a leading plus sign is not accepted
ParseInt_NoPlus(s) ==
    LET neg == Len(s) > 0 /\ s[1] = "-"
        digits == IF neg THEN Tail(s) ELSE s
        mag == DigitsValue(digits, 0)
        val == IF neg THEN -mag ELSE mag
    IN IF Len(digits) = 0 \/ \E i \in 1..Len(digits) : ~IsDigit(digits[i])
       THEN [val |-> 0, ok |-> FALSE]
       ELSE IF val < MinInt \/ val > MaxInt
       THEN [val |-> IF neg THEN MinInt ELSE MaxInt, ok |-> FALSE]
       ELSE [val |-> val, ok |-> TRUE]

\* strconv.ParseInt(s, 10, 64): an optional sign, then decimal digits only;
\* a value outside the integer range is an error (ErrRange)
ParseInt(s) ==
    LET signed == Len(s) > 0 /\ s[1] \in {"+", "-"}
        digits == IF signed THEN Tail(s) ELSE s
        neg == signed /\ s[1] = "-"
        mag == DigitsValue(digits, 0)
        val == IF neg THEN -mag ELSE mag
    IN IF Len(digits) = 0 \/ \E i \in 1..Len(digits) : ~IsDigit(digits[i])
       THEN [val |-> 0, ok |-> FALSE]
       ELSE IF val < MinInt \/ val > MaxInt
       THEN [val |-> IF neg THEN MinInt ELSE MaxInt, ok |-> FALSE]
       ELSE [val |-> val, ok |-> TRUE]

RECURSIVE FormatUint(_)
FormatUint(n) ==
    IF n < 10 THEN <<DigitChars[n + 1]>>
    ELSE FormatUint(n \div 10) \o <<DigitChars[(n % 10) + 1]>>

\* fmt's %d of an int64
FormatInt(n) == IF n < 0 THEN <<"-">> \o FormatUint(-n) ELSE FormatUint(n)

RECURSIVE EncodeToString(_)
\* hex.EncodeToString: two lower-case hex digits per byte
EncodeToString(bytes) ==
    IF Len(bytes) = 0 THEN <<>>
    ELSE <<HexChars[(bytes[1] \div 16) + 1], HexChars[(bytes[1] % 16) + 1]>>
         \o EncodeToString(Tail(bytes))

(***************************************************************************)
(* Errors.  An error value is the sentinel it wraps (what errors.Is        *)
(* matches) and its message.                                               *)
(***************************************************************************)
Nil == [nil |-> TRUE]
NoError == [is |-> "nil", msg |-> ""]
ErrInvalidWebhookSignature == "ErrInvalidWebhookSignature"
ErrWebhookTimestampExpired == "ErrWebhookTimestampExpired"

\* fmt.Errorf("%w: msg", sentinel)
Errorf(sentinel, msg) == [is |-> sentinel, msg |-> msg]

\* errors.Is(err, sentinel)
ErrorsIs(err, sentinel) == err.is = sentinel

(***************************************************************************)
(* computeHMAC.  HMAC-SHA256 is modelled as an ideal keyed hash: the       *)
(* digest determines the key block and the data, and nothing else maps to  *)
(* it.  As in HMAC, a key shorter than the block is padded with zero bytes *)
(* first, so that "k" and "k" followed by NUL are the same key.            *)
(***************************************************************************)
RECURSIVE BytesOf(_)
BytesOf(s) == IF Len(s) = 0 THEN <<>> ELSE <<ByteOf(s[1])>> \o BytesOf(Tail(s))

KeyBlock(secret) ==
    BytesOf(secret) \o [i \in 1..(BlockSize - Len(secret)) |-> 0]

\* h := hmac.New(sha256.New, []byte(secret)); h.Write(data); h.Sum(nil)
HmacSum(data, secret) == KeyBlock(secret) \o BytesOf(data)

computeHMAC(data, secret) == EncodeToString(HmacSum(data, secret))

RECURSIVE ConstantTimeCompare(_, _, _)
\* subtle.ConstantTimeCompare: 0 at once when the lengths differ, else the
\* differences of all byte pairs are accumulated and compared with 0 at the end
ConstantTimeCompare(x, y, v) ==
    IF Len(x) /= Len(y) THEN 0
    ELSE IF Len(x) = 0 THEN (IF v = 0 THEN 1 ELSE 0)
    ELSE ConstantTimeCompare(Tail(x), Tail(y),
                             IF x[1] = y[1] THEN v ELSE 1)

\* a mutant of secureCompare: the comparison stops at the shorter length
secureCompare_Prefix(a, b) ==
    \A i \in 1..(IF Len(a) < Len(b) THEN Len(a) ELSE Len(b)) : a[i] = b[i]

\* a mutant of secureCompare: only the lengths are compared
secureCompare_LengthOnly(a, b) == Len(a) = Len(b)

secureCompare(a, b) == ConstantTimeCompare(a, b, 0) = 1

(***************************************************************************)
(* parseSignature.                                                         *)
(***************************************************************************)
STR_t == <<"t">>
STR_v1 == <<"v", "1">>

RECURSIVE ParseParts(_, _, _)
\* the loop over the comma-separated parts, with the values seen so far
ParseParts(parts, timestamp, hash) ==
    IF Len(parts) = 0 THEN [timestamp |-> timestamp, hash |-> hash, err |-> NoError]
    ELSE
      LET kv == SplitN2(parts[1], "=")
      IN IF Len(kv) /= 2 THEN ParseParts(Tail(parts), timestamp, hash)
         ELSE
           LET key == TrimSpace(kv[1])
               value == TrimSpace(kv[2])
           IN IF key = STR_t
              THEN LET n == ParseInt(value)
                   IN IF ~n.ok
                      THEN [timestamp |-> 0, hash |-> <<>>,
                            err |-> Errorf(ErrInvalidWebhookSignature,
                                           "invalid timestamp in signature")]
                      ELSE ParseParts(Tail(parts), n.val, hash)
              ELSE IF key = STR_v1
              THEN ParseParts(Tail(parts), timestamp, value)
              ELSE ParseParts(Tail(parts), timestamp, hash)

\* a mutant of parseSignature: a timestamp of 0 is not taken as missing
parseSignature_ZeroAllowed(signature) ==
    LET parts == Split(signature, ",")
    IN IF Len(parts) < 2
       THEN [timestamp |-> 0, hash |-> <<>>,
             err |-> Errorf(ErrInvalidWebhookSignature,
                            "invalid signature format, expected t={timestamp},v1={hash}")]
       ELSE
         LET r == ParseParts(parts, 0, <<>>)
         IN IF r.err /= NoError THEN r
            ELSE IF r.hash = <<>>
            THEN [timestamp |-> 0, hash |-> <<>>,
                  err |-> Errorf(ErrInvalidWebhookSignature,
                                 "missing hash (v1=) in signature")]
            ELSE r

parseSignature(signature) ==
    LET parts == Split(signature, ",")
    IN IF Len(parts) < 2
       THEN [timestamp |-> 0, hash |-> <<>>,
             err |-> Errorf(ErrInvalidWebhookSignature,
                            "invalid signature format, expected t={timestamp},v1={hash}")]
       ELSE
         LET r == ParseParts(parts, 0, <<>>)
         IN IF r.err /= NoError THEN r
            ELSE IF r.timestamp = 0
            THEN [timestamp |-> 0, hash |-> <<>>,
                  err |-> Errorf(ErrInvalidWebhookSignature,
                                 "missing timestamp (t=) in signature")]
            ELSE IF r.hash = <<>>
            THEN [timestamp |-> 0, hash |-> <<>>,
                  err |-> Errorf(ErrInvalidWebhookSignature,
                                 "missing hash (v1=) in signature")]
            ELSE r

(***************************************************************************)
(* json.Unmarshal(payload, &event) on the JSON the model's payloads use:   *)
(* null, integers, strings without escapes, arrays and objects, without    *)
(* white space.  The scanner checks the whole input first (a syntax error  *)
(* stores nothing); the decoder then fills the WebhookEvent fields.        *)
(***************************************************************************)
STR_null == <<"n", "u", "l", "l">>
STR_id == <<"i", "d">>
STR_event == <<"e", "v", "e", "n", "t">>
STR_timestamp == <<"t", "i", "m", "e", "s", "t", "a", "m", "p">>

HasPrefix(s, prefix) ==
    Len(s) >= Len(prefix) /\ SubSeq(s, 1, Len(prefix)) = prefix

BadJSON == [ok |-> FALSE, val |-> [t |-> "invalid"], rest |-> <<>>]

\* a string literal: s[1] is the opening quote
ScanString(s) ==
    LET body == Tail(s)
        i == IndexByte(body, QUOTE)
    IN IF i = 0 THEN BadJSON
       ELSE [ok |-> TRUE, val |-> [t |-> "string", s |-> SubSeq(body, 1, i - 1)],
             rest |-> SubSeq(body, i + 1, Len(body))]

\* an integer literal: an optional minus, then 0 or a digit string not starting with 0
ScanNumber(s) ==
    LET neg == s[1] = "-"
        d == IF neg THEN Tail(s) ELSE s
        stops == {i \in 1..Len(d) : ~IsDigit(d[i])}
        run == IF stops = {} THEN Len(d)
               ELSE (CHOOSE i \in stops : \A j \in stops : i <= j) - 1
        n == IF run > 0 /\ d[1] = "0" THEN 1 ELSE run
        mag == DigitsValue(SubSeq(d, 1, n), 0)
    IN IF n = 0 THEN BadJSON
       ELSE [ok |-> TRUE, val |-> [t |-> "number", n |-> IF neg THEN -mag ELSE mag],
             rest |-> SubSeq(d, n + 1, Len(d))]

RECURSIVE ScanValue(_)
RECURSIVE ScanMembers(_, _)
RECURSIVE ScanElements(_, _)

\* the members of an object after its first brace or a comma: "key":value
ScanMembers(s, acc) ==
    IF Len(s) = 0 \/ s[1] /= QUOTE THEN BadJSON
    ELSE
      LET k == ScanString(s)
      IN IF ~k.ok \/ Len(k.rest) = 0 \/ k.rest[1] /= ":" THEN BadJSON
         ELSE
           LET v == ScanValue(Tail(k.rest))
               more == Append(acc, [key |-> k.val.s, val |-> v.val])
           IN IF ~v.ok \/ Len(v.rest) = 0 THEN BadJSON
              ELSE IF v.rest[1] = "}"
              THEN [ok |-> TRUE, val |-> [t |-> "object", members |-> more],
                    rest |-> Tail(v.rest)]
              ELSE IF v.rest[1] = "," THEN ScanMembers(Tail(v.rest), more)
              ELSE BadJSON

\* the elements of an array after its first bracket or a comma
ScanElements(s, acc) ==
    LET v == ScanValue(s)
        more == Append(acc, v.val)
    IN IF ~v.ok \/ Len(v.rest) = 0 THEN BadJSON
       ELSE IF v.rest[1] = "]"
       THEN [ok |-> TRUE, val |-> [t |-> "array", elements |-> more], rest |-> Tail(v.rest)]
       ELSE IF v.rest[1] = "," THEN ScanElements(Tail(v.rest), more)
       ELSE BadJSON

ScanValue(s) ==
    IF Len(s) = 0 THEN BadJSON
    ELSE IF HasPrefix(s, STR_null)
    THEN [ok |-> TRUE, val |-> [t |-> "null"], rest |-> SubSeq(s, 5, Len(s))]
    ELSE IF s[1] = QUOTE THEN ScanString(s)
    ELSE IF s[1] = "-" \/ IsDigit(s[1])
    THEN (IF s = <<"-">> THEN BadJSON ELSE ScanNumber(s))
    ELSE IF s[1] = "{"
    THEN (IF Len(s) >= 2 /\ s[2] = "}"
          THEN [ok |-> TRUE, val |-> [t |-> "object", members |-> <<>>],
                rest |-> SubSeq(s, 3, Len(s))]
          ELSE ScanMembers(Tail(s), <<>>))
    ELSE IF s[1] = "["
    THEN (IF Len(s) >= 2 /\ s[2] = "]"
          THEN [ok |-> TRUE, val |-> [t |-> "array", elements |-> <<>>],
                rest |-> SubSeq(s, 3, Len(s))]
          ELSE ScanElements(Tail(s), <<>>))
    ELSE BadJSON

\* the zero value of WebhookEvent (the Data fields are not modelled)
ZeroEvent ==
    [ID |-> <<>>, Event |-> <<>>, Timestamp |-> 0, RawPayload |-> Nil]

RECURSIVE DecodeMembers(_, _, _)
\* the object's members in order: a known key takes a value of its type, null
\* leaves the field alone, another type is an UnmarshalTypeError (the first
\* one is kept and decoding goes on); unknown keys are skipped
DecodeMembers(members, event, err) ==
    IF Len(members) = 0 THEN [event |-> event, err |-> err]
    ELSE
      LET m == members[1]
          want == IF m.key = STR_id \/ m.key = STR_event THEN "string"
                  ELSE IF m.key = STR_timestamp THEN "number"
                  ELSE "any"
          mismatch == Errorf("json.UnmarshalTypeError", "cannot unmarshal into Go value")
      IN IF want = "any" \/ m.val.t = "null"
         THEN DecodeMembers(Tail(members), event, err)
         ELSE IF m.val.t /= want
         THEN DecodeMembers(Tail(members), event, IF err = NoError THEN mismatch ELSE err)
         ELSE IF m.key = STR_id
         THEN DecodeMembers(Tail(members), [event EXCEPT !.ID = m.val.s], err)
         ELSE IF m.key = STR_event
         THEN DecodeMembers(Tail(members), [event EXCEPT !.Event = m.val.s], err)
         ELSE DecodeMembers(Tail(members), [event EXCEPT !.Timestamp = m.val.n], err)

\* var event WebhookEvent; err := json.Unmarshal(payload, &event)
Unmarshal(payload) ==
    LET r == ScanValue(payload)
    IN IF ~r.ok \/ r.rest /= <<>>
       THEN [event |-> ZeroEvent,
             err |-> Errorf("json.SyntaxError", "invalid character")]
       ELSE IF r.val.t = "null" THEN [event |-> ZeroEvent, err |-> NoError]
       ELSE IF r.val.t = "object" THEN DecodeMembers(r.val.members, ZeroEvent, NoError)
       ELSE [event |-> ZeroEvent,
             err |-> Errorf("json.UnmarshalTypeError", "cannot unmarshal into Go value")]

(***************************************************************************)
(* VerifyWebhook.  A call's outcome is the returned pair (event, err) and  *)
(* the gates the call evaluated, in order.                                 *)
(***************************************************************************)
\* a mutant of Reject: the zero event is returned beside the error
Reject_WithEvent(err, steps) == [event |-> ZeroEvent, err |-> err, steps |-> steps]

\* return nil, err
Reject(err, steps) == [event |-> Nil, err |-> err, steps |-> steps]

\* a mutant of Accept: the payload is not attached to the event
Accept_NoRawPayload(event, payload, steps) ==
    [event |-> [event EXCEPT !.RawPayload = <<>>], err |-> NoError, steps |-> steps]

\* event.RawPayload = payload; return &event, nil
Accept(event, payload, steps) ==
    [event |-> [event EXCEPT !.RawPayload = payload], err |-> NoError, steps |-> steps]

\* a mutant of DeliveryMismatch: a delivery timestamp of 0 is compared too
DeliveryMismatch_NoSkip(deliveryTimestamp, sigTimestamp) ==
    deliveryTimestamp /= sigTimestamp

\* deliveryTimestamp != 0 && deliveryTimestamp != sigTimestamp
DeliveryMismatch(deliveryTimestamp, sigTimestamp) ==
    deliveryTimestamp /= 0 /\ deliveryTimestamp /= sigTimestamp

\* diff := now - sigTimestamp; if diff < 0 { diff = -diff }
AgeSeconds(clock, sigTimestamp) ==
    LET diff == Wrap(clock - sigTimestamp)
    IN IF diff < 0 THEN Wrap(-diff) ELSE diff

\* time.Duration(diff)*time.Second > tolerance
ToleranceExceeded(diff, tolerance) == Wrap(diff * Second) > tolerance

\* a mutant of SignedPayload: the payload is signed without the timestamp
SignedPayload_NoTimestamp(sigTimestamp, payload) == payload

\* fmt.Sprintf("%d.%s", sigTimestamp, string(payload))
SignedPayload(sigTimestamp, payload) == FormatInt(sigTimestamp) \o <<".">> \o payload

\* a mutant of WrapParseError: the parse failure reported as a signature failure
WrapParseError_AsSignature(err) ==
    Errorf(ErrInvalidWebhookSignature, "failed to parse webhook payload")

\* fmt.Errorf("failed to parse webhook payload: %w", err)
WrapParseError(err) == [is |-> err.is, msg |-> "failed to parse webhook payload"]

\* the last two gates: the HMAC comparison, then the JSON parse
CheckHashThenParse(sigTimestamp, sigHash, payload, signingSecret, steps) ==
    LET expectedHash == computeHMAC(SignedPayload(sigTimestamp, payload), signingSecret)
    IN IF ~secureCompare(sigHash, expectedHash)
       THEN Reject(Errorf(ErrInvalidWebhookSignature, "signature verification failed"),
                   Append(steps, "hmac"))
       ELSE LET u == Unmarshal(payload)
            IN IF u.err /= NoError
               THEN Reject(WrapParseError(u.err), steps \o <<"hmac", "json">>)
               ELSE Accept(u.event, payload, steps \o <<"hmac", "json">>)

\* a mutant of MissingSecret: the empty secret is let through
MissingSecret_Never(signingSecret) == FALSE

\* signingSecret == ""
MissingSecret(signingSecret) == signingSecret = <<>>

\* signature == ""
MissingSignature(signature) == signature = <<>>

VerifyWebhook(signature, payload, deliveryTimestamp, signingSecret, tolerance, clock) ==
    IF MissingSecret(signingSecret)
    THEN Reject(Errorf(ErrInvalidWebhookSignature, "signing secret is required"),
                <<"secret">>)
    ELSE IF MissingSignature(signature)
    THEN Reject(Errorf(ErrInvalidWebhookSignature, "signature is required"),
                <<"secret", "signature">>)
    ELSE
      LET sig == parseSignature(signature)
      IN IF sig.err /= NoError
         THEN Reject(sig.err, <<"secret", "signature", "parse">>)
         ELSE IF DeliveryMismatch(deliveryTimestamp, sig.timestamp)
         THEN Reject(Errorf(ErrInvalidWebhookSignature,
                            "timestamp mismatch between signature and delivery headers"),
                     <<"secret", "signature", "parse", "delivery">>)
         ELSE IF ToleranceExceeded(AgeSeconds(clock, sig.timestamp), tolerance)
         THEN Reject(Errorf(ErrWebhookTimestampExpired, "timestamp is too old"),
                     <<"secret", "signature", "parse", "delivery", "tolerance">>)
         ELSE CheckHashThenParse(sig.timestamp, sig.hash, payload, signingSecret,
                                 <<"secret", "signature", "parse", "delivery", "tolerance">>)

(***************************************************************************)
(* VerifyWebhookFromRequest.  A request is its headers (a function from    *)
(* the names present to their values) and its body: the bytes a read       *)
(* yields and whether the read ends in an error.                           *)
(***************************************************************************)
HeaderSignature == "X-Lettermint-Signature"
HeaderDelivery == "X-Lettermint-Delivery"

\* r.Header.Get(name): the empty string when the header is absent
HeaderGet(r, name) == IF name \in DOMAIN r.header THEN r.header[name] ELSE <<>>

\* a mutant of ReadAll: the read error is dropped, the bytes read are kept
ReadAll_IgnoreError(body) == [data |-> body.data, err |-> NoError]

\* io.ReadAll(r.Body)
ReadAll(body) ==
    [data |-> body.data,
     err |-> IF body.fails THEN Errorf("io.ErrUnexpectedEOF", "failed to read request body")
             ELSE NoError]

\* a mutant of InvalidDeliveryHeader: the parse error is ignored
InvalidDeliveryHeader_Never(deliveryHeader) == FALSE

\* deliveryHeader != "" and strconv.ParseInt(deliveryHeader, 10, 64) fails
InvalidDeliveryHeader(deliveryHeader) ==
    deliveryHeader /= <<>> /\ ~ParseInt(deliveryHeader).ok

\* a mutant of DeliveryTimestampOf: the header's value is not used
DeliveryTimestampOf_Zero(deliveryHeader) == 0

\* var deliveryTimestamp int64, set from the header when it is not empty
DeliveryTimestampOf(deliveryHeader) ==
    IF deliveryHeader /= <<>> THEN ParseInt(deliveryHeader).val ELSE 0

VerifyWebhookFromRequest(r, signingSecret, tolerance, clock) ==
    LET signature == HeaderGet(r, HeaderSignature)
        deliveryHeader == HeaderGet(r, HeaderDelivery)
        deliveryTimestamp == DeliveryTimestampOf(deliveryHeader)
        read == ReadAll(r.body)
    IN IF signature = <<>>
       THEN Reject(Errorf(ErrInvalidWebhookSignature, "missing signature header"),
                   <<"header">>)
       ELSE IF InvalidDeliveryHeader(deliveryHeader)
       THEN Reject(Errorf(ErrInvalidWebhookSignature, "invalid delivery header value"),
                   <<"header", "delivery-header">>)
       ELSE IF read.err /= NoError
       THEN Reject(read.err, <<"header", "delivery-header", "read">>)
       ELSE LET v == VerifyWebhook(signature, read.data, deliveryTimestamp,
                                   signingSecret, tolerance, clock)
            IN [v EXCEPT !.steps = <<"header", "delivery-header", "read">> \o @]

\* r.Body before the call: nothing read from it, not closed
UnreadBody == [read |-> "nothing", closed |-> FALSE]

\* r.Body after the call: io.ReadAll reads it to its end or to the read error
\* once both headers are accepted; no path calls r.Body.Close()
BodyAfterVerifyWebhookFromRequest(r) ==
    IF HeaderGet(r, HeaderSignature) = <<>>
          \/ InvalidDeliveryHeader(HeaderGet(r, HeaderDelivery))
    THEN UnreadBody
    ELSE [read |-> IF r.body.fails THEN "error" ELSE "eof", closed |-> FALSE]

(***************************************************************************)
(* The email client (lettermint.go, email.go, errors.go).  Addresses,      *)
(* subjects and bodies of an email are strings, of which only emptiness    *)
(* is tested; URLs and the bytes of an HTTP response are sequences of      *)
(* characters.                                                             *)
(***************************************************************************)
ErrInvalidAPIToken == "ErrInvalidAPIToken"
ErrInvalidRequest == "ErrInvalidRequest"
ErrUnauthorized == "ErrUnauthorized"
ErrValidation == "ErrValidation"
ErrRateLimited == "ErrRateLimited"
ErrServerError == "ErrServerError"
ErrTimeout == "ErrTimeout"

\* the sentinel errors of errors.go
Sentinels ==
    { ErrInvalidAPIToken, ErrInvalidRequest, ErrUnauthorized, ErrValidation,
      ErrRateLimited, ErrServerError, ErrTimeout,
      ErrInvalidWebhookSignature, ErrWebhookTimestampExpired }

\* "https://api.lettermint.co/v1"
DefaultBaseURL ==
    <<"h", "t", "t", "p", "s", ":", "/", "/", "a", "p", "i", ".", "l", "e", "t", "t",
      "e", "r", "m", "i", "n", "t", ".", "c", "o", "/", "v", "1">>

\* DefaultTimeout = 30 * time.Second
DefaultTimeout == 30 * Second

\* the http.Client values: the one New makes, and two the caller made
NewHTTPClient == "new"
CallerHTTPClients == {"custom1", "custom2"}

\* the http clients before any call of New: the caller's have a timeout of
\* 120 seconds and no timeout
HTTPClients0 ==
    [h \in {NewHTTPClient} \cup CallerHTTPClients |->
        [Timeout |-> IF h = "custom1" THEN 120 * Second ELSE 0]]

\* the options
WithBaseURL(baseURL) == [option |-> "WithBaseURL", baseURL |-> baseURL]
WithTimeout(timeout) == [option |-> "WithTimeout", timeout |-> timeout]
WithHTTPClient(httpClient) == [option |-> "WithHTTPClient", httpClient |-> httpClient]

\* opt(c): an option applied to the client c, with the http clients it may write
ApplyOption(opt, c, heap) ==
    IF opt.option = "WithBaseURL"
    THEN [c |-> [c EXCEPT !.baseURL = opt.baseURL], heap |-> heap]
    ELSE IF opt.option = "WithTimeout"
    THEN [c |-> c, heap |-> [heap EXCEPT ![c.httpClient].Timeout = opt.timeout]]
    ELSE [c |-> [c EXCEPT !.httpClient = opt.httpClient], heap |-> heap]

RECURSIVE ApplyOptions(_, _, _)
\* for _, opt := range opts { opt(c) }
ApplyOptions(opts, c, heap) ==
    IF Len(opts) = 0 THEN [c |-> c, heap |-> heap]
    ELSE LET r == ApplyOption(opts[1], c, heap)
         IN ApplyOptions(Tail(opts), r.c, r.heap)

\* the error value that is the sentinel itself
Itself(sentinel) == [is |-> sentinel, msg |-> sentinel]

\* the client New makes before the options, and its new http client
NewClient(apiToken) ==
    [apiToken |-> apiToken, baseURL |-> DefaultBaseURL, httpClient |-> NewHTTPClient]
NewHeap(heap) == [heap EXCEPT ![NewHTTPClient] = [Timeout |-> DefaultTimeout]]

\* a mutant of New: the options are applied before the token is checked
New_OptionsFirst(apiToken, opts, heap) ==
    LET r == ApplyOptions(opts, NewClient(apiToken), NewHeap(heap))
    IN IF apiToken = ""
       THEN [client |-> Nil, err |-> Itself(ErrInvalidAPIToken), heap |-> r.heap]
       ELSE [client |-> r.c, err |-> NoError, heap |-> r.heap]

\* func New(apiToken string, opts ...Option) (*Client, error); heap is the
\* http clients before the call and, in the result, after it
New(apiToken, opts, heap) ==
    IF apiToken = ""
    THEN [client |-> Nil, err |-> Itself(ErrInvalidAPIToken), heap |-> heap]
    ELSE LET r == ApplyOptions(opts, NewClient(apiToken), NewHeap(heap))
         IN [client |-> r.c, err |-> NoError, heap |-> r.heap]

\* the client New(apiToken, WithBaseURL(baseURL)) returns
ClientWith(apiToken, baseURL) ==
    New(apiToken, <<WithBaseURL(baseURL)>>, HTTPClients0).client

\* the client New("token") returns
DefaultClient == ClientWith("token", DefaultBaseURL)

\* func (c *Client) Email(ctx): a builder with an empty payload
Email(c) ==
    [client |-> c,
     payload |-> [From |-> "", To |-> <<>>, Subject |-> "", HTML |-> "", Text |-> "",
                  CC |-> <<>>, BCC |-> <<>>, ReplyTo |-> <<>>],
     idempotencyKey |-> ""]

\* the builder's setters
From(b, email) == [b EXCEPT !.payload.From = email]
To(b, emails) == [b EXCEPT !.payload.To = @ \o emails]
Subject(b, subject) == [b EXCEPT !.payload.Subject = subject]
HTML(b, html) == [b EXCEPT !.payload.HTML = html]
Text(b, text) == [b EXCEPT !.payload.Text = text]

\* a mutant of CC: the addresses replace the list
CC_Replace(b, emails) == [b EXCEPT !.payload.CC = emails]

CC(b, emails) == [b EXCEPT !.payload.CC = @ \o emails]
BCC(b, emails) == [b EXCEPT !.payload.BCC = @ \o emails]
ReplyTo(b, emails) == [b EXCEPT !.payload.ReplyTo = @ \o emails]

\* a mutant of IdempotencyKey: a key once set is kept
IdempotencyKey_KeepFirst(b, key) ==
    IF b.idempotencyKey = "" THEN [b EXCEPT !.idempotencyKey = key] ELSE b

IdempotencyKey(b, key) == [b EXCEPT !.idempotencyKey = key]

\* fmt.Errorf(msg): an error that wraps no sentinel
PlainError(msg) == [is |-> "none", msg |-> msg]

\* a mutant of validate: the recipients are not checked
validate_NoRecipientCheck(b) ==
    IF b.payload.From = "" THEN PlainError("from address is required")
    ELSE IF b.payload.Subject = "" THEN PlainError("subject is required")
    ELSE IF b.payload.HTML = "" /\ b.payload.Text = ""
    THEN PlainError("either html or text body is required")
    ELSE NoError

\* func (b *EmailBuilder) validate() error
validate(b) ==
    IF b.payload.From = "" THEN PlainError("from address is required")
    ELSE IF Len(b.payload.To) = 0 THEN PlainError("at least one recipient is required")
    ELSE IF b.payload.Subject = "" THEN PlainError("subject is required")
    ELSE IF b.payload.HTML = "" /\ b.payload.Text = ""
    THEN PlainError("either html or text body is required")
    ELSE NoError

\* strings.TrimSuffix(s, "/")
TrimSuffixSlash(s) ==
    IF Len(s) > 0 /\ s[Len(s)] = "/" THEN SubSeq(s, 1, Len(s) - 1) ELSE s

\* fmt.Sprintf("%s/send", strings.TrimSuffix(b.client.baseURL, "/"))
SendURL(c) == TrimSuffixSlash(c.baseURL) \o <<"/", "s", "e", "n", "d">>

\* http.NewRequestWithContext accepts the URL: url.Parse rejects control characters
ValidURL(url) == \A i \in 1..Len(url) : url[i] /= NUL

\* json.Marshal(b.payload): the members of the object; html, text, cc, bcc and
\* reply_to are omitted when empty
MarshalPayload(payload) ==
    LET all == [from |-> payload.From, to |-> payload.To, subject |-> payload.Subject,
                html |-> payload.HTML, text |-> payload.Text, cc |-> payload.CC,
                bcc |-> payload.BCC, reply_to |-> payload.ReplyTo]
        kept == {"from", "to", "subject"}
                  \cup {k \in {"html", "text"} : all[k] /= ""}
                  \cup {k \in {"cc", "bcc", "reply_to"} : all[k] /= <<>>}
    IN [k \in kept |-> all[k]]

\* the request Send builds
NewSendRequest(b, c) ==
    LET fixed == [h \in {"Content-Type", "Accept", "x-lettermint-token"} |->
                    IF h = "x-lettermint-token" THEN c.apiToken ELSE "application/json"]
    IN [method |-> "POST", url |-> SendURL(c),
        header |-> IF b.idempotencyKey /= ""
                   THEN [h \in DOMAIN fixed \cup {"Idempotency-Key"} |->
                            IF h = "Idempotency-Key" THEN b.idempotencyKey ELSE fixed[h]]
                   ELSE fixed,
        body |-> MarshalPayload(b.payload)]

RECURSIVE DecodeStringFields(_, _, _, _)
\* json.Unmarshal into a struct of string fields (and map fields, not kept):
\* as DecodeMembers, for the fields the function types names
DecodeStringFields(members, types, val, err) ==
    IF Len(members) = 0 THEN [val |-> val, err |-> err]
    ELSE
      LET m == members[1]
          mismatch == Errorf("json.UnmarshalTypeError", "cannot unmarshal into Go value")
      IN IF m.key \notin DOMAIN types \/ m.val.t = "null"
         THEN DecodeStringFields(Tail(members), types, val, err)
         ELSE IF m.val.t /= types[m.key]
         THEN DecodeStringFields(Tail(members), types, val,
                                 IF err = NoError THEN mismatch ELSE err)
         ELSE IF m.val.t = "string"
         THEN DecodeStringFields(Tail(members), types, [val EXCEPT ![m.key] = m.val.s], err)
         ELSE DecodeStringFields(Tail(members), types, val, err)

\* json.Unmarshal(body, &v) for a struct v with the fields of types
UnmarshalStruct(body, types) ==
    LET r == ScanValue(body)
        zero == [k \in DOMAIN types |-> <<>>]
    IN IF ~r.ok \/ r.rest /= <<>>
       THEN [val |-> zero, err |-> Errorf("json.SyntaxError", "invalid character")]
       ELSE IF r.val.t = "null" THEN [val |-> zero, err |-> NoError]
       ELSE IF r.val.t = "object"
       THEN DecodeStringFields(r.val.members, types, zero, NoError)
       ELSE [val |-> zero,
             err |-> Errorf("json.UnmarshalTypeError", "cannot unmarshal into Go value")]

\* the json keys of SendResponse and apiErrorResponse
STR_message_id == <<"m", "e", "s", "s", "a", "g", "e", "_", "i", "d">>
STR_status == <<"s", "t", "a", "t", "u", "s">>
STR_message == <<"m", "e", "s", "s", "a", "g", "e">>
STR_error == <<"e", "r", "r", "o", "r">>
STR_error_type == <<"e", "r", "r", "o", "r", "_", "t", "y", "p", "e">>
STR_errors == <<"e", "r", "r", "o", "r", "s">>

\* type SendResponse struct
SendResponseFields == [k \in {STR_message_id, STR_status} |-> "string"]

\* type apiErrorResponse struct
apiErrorResponseFields ==
    [k \in {STR_message, STR_error, STR_error_type, STR_errors} |->
        IF k = STR_errors THEN "object" ELSE "string"]

\* http.StatusText(statusCode), kept as the code it names
StatusText(statusCode) == <<"StatusText", statusCode>>

\* func parseAPIError(statusCode int, body []byte) error
parseAPIError(statusCode, body) ==
    LET u == UnmarshalStruct(body, apiErrorResponseFields)
        message == IF u.err /= NoError THEN body
                   ELSE IF u.val[STR_message] /= <<>> THEN u.val[STR_message]
                   ELSE u.val[STR_error]
    IN [type |-> "*APIError", StatusCode |-> statusCode,
        Message |-> IF message = <<>> THEN StatusText(statusCode) ELSE message,
        ErrorType |-> IF u.err = NoError THEN u.val[STR_error_type] ELSE <<>>,
        ResponseBody |-> body]

\* errors.As(err, &apiErr)
IsAPIError(err) == "type" \in DOMAIN err /\ err.type = "*APIError"

\* a mutant of APIErrorUnwrap: only status 500 is a server error
APIErrorUnwrap_Only500(e) ==
    IF e.StatusCode = 400 THEN ErrInvalidRequest
    ELSE IF e.StatusCode = 401 THEN ErrUnauthorized
    ELSE IF e.StatusCode = 422 THEN ErrValidation
    ELSE IF e.StatusCode = 429 THEN ErrRateLimited
    ELSE IF e.StatusCode = 500 THEN ErrServerError
    ELSE "nil"

\* func (e *APIError) Unwrap() error
APIErrorUnwrap(e) ==
    IF e.StatusCode = 400 THEN ErrInvalidRequest
    ELSE IF e.StatusCode = 401 THEN ErrUnauthorized
    ELSE IF e.StatusCode = 422 THEN ErrValidation
    ELSE IF e.StatusCode = 429 THEN ErrRateLimited
    ELSE IF e.StatusCode >= 500 THEN ErrServerError
    ELSE "nil"

\* errors.Is(err, target) for the errors Send returns: an *APIError matches
\* what it unwraps to
Is(err, target) ==
    IF IsAPIError(err) THEN APIErrorUnwrap(err) = target ELSE ErrorsIs(err, target)

\* the error Send makes of a failed b.client.httpClient.Do(req), by b.ctx.Err()
DoError(ctxErr) ==
    IF ctxErr = "context.DeadlineExceeded" THEN Errorf(ErrTimeout, "request timeout")
    ELSE IF ctxErr = "context.Canceled"
    THEN [is |-> "context.Canceled", msg |-> "request canceled"]
    ELSE [is |-> "url.Error", msg |-> "request failed"]

\* the error of io.ReadAll(resp.Body): the deadline of b.ctx or the timeout of
\* the http client can end the read of the body
ReadError(transport) ==
    IF transport.timedOut = "context" THEN "context.DeadlineExceeded"
    ELSE IF transport.timedOut = "client" THEN "http.timeoutError"
    ELSE "io.ErrUnexpectedEOF"

\* a mutant of BuilderAfterSend: Send empties the builder
BuilderAfterSend_Cleared(b) == Email(b.client)

\* the builder after Send: Send assigns no field of b and none of b.payload
BuilderAfterSend(b) == b

\* what Send returns, and the requests it gave to httpClient.Do
SendReturns(resp, err, reqs) == [resp |-> resp, err |-> err, requests |-> reqs]

\* func (b *EmailBuilder) Send() (*SendResponse, error); transport is what
\* httpClient.Do does with the request: an error (with the state of b.ctx),
\* or a response with its status, the bytes of its body and whether reading
\* them fails; timedOut tells whether the request timed out, by the deadline
\* of b.ctx or by the timeout of the http client
Send(b, transport) ==
    LET verr == validate(b)
        r == NewSendRequest(b, b.client)
        u == UnmarshalStruct(transport.body, SendResponseFields)
    IN IF verr /= NoError
       THEN SendReturns(Nil, Errorf(ErrInvalidRequest, verr.msg), <<>>)
       ELSE IF ~ValidURL(SendURL(b.client))
       THEN SendReturns(Nil, [is |-> "url.Error", msg |-> "failed to create request"], <<>>)
       ELSE IF transport.kind = "error"
       THEN SendReturns(Nil, DoError(transport.ctxErr), <<r>>)
       ELSE IF transport.readFails
       THEN SendReturns(Nil, Errorf(ReadError(transport), "failed to read response"), <<r>>)
       ELSE IF transport.status >= 400
       THEN SendReturns(Nil, parseAPIError(transport.status, transport.body), <<r>>)
       ELSE IF u.err /= NoError
       THEN SendReturns(Nil, [is |-> u.err.is, msg |-> "failed to parse response"], <<r>>)
       ELSE SendReturns([MessageID |-> u.val[STR_message_id], Status |-> u.val[STR_status]],
                        NoError, <<r>>)

(***************************************************************************)
(* The inputs the model draws.                                             *)
(***************************************************************************)
\* the longest whole number of seconds a tolerance can hold
MaxWholeSeconds == MaxInt \div Second

Payloads ==
    { <<"{", QUOTE, "i", "d", QUOTE, ":", QUOTE, "a", QUOTE, "}">>,
      <<"{", "}">>,
      <<"n", "u", "l", "l">>,
      <<"{", QUOTE, "i", "d", QUOTE, ":", "1", "}">>,
      <<"[", "]">>,
      <<"x">>,
      <<>> }

Secrets == { <<>>, <<"k">>, <<"k", "j">> }

Tolerances == { 0, Second, MaxWholeSeconds * Second }

\* token timestamps: around the clock, and at the far ends of the range
TokenTimes ==
    ((StartNow - 2)..(MaxNow + 2))
    \cup { 0, StartNow - MaxWholeSeconds - 1, StartNow - MaxWholeSeconds,
           StartNow + MaxWholeSeconds, StartNow + MaxWholeSeconds + 1, MinInt, MaxInt }

DeliveryTimestamps == { 0, StartNow, MaxNow + 1 }

\* generateTestSignature: the token a sender holding `secret` makes for
\* `payload` at `timestamp`
generateTestSignature(payload, secret, timestamp) ==
    LET signedPayload == FormatInt(timestamp) \o <<".">> \o payload
        hash == EncodeToString(HmacSum(signedPayload, secret))
    IN <<"t", "=">> \o FormatInt(timestamp) \o <<",", "v", "1", "=">> \o hash

\* the same pairs written otherwise: reordered, with another key, with
\* white space, with a sign or a leading zero, with a key given twice
TokenVariants(payload, secret, timestamp) ==
    LET t == <<"t", "=">> \o FormatInt(timestamp)
        h == EncodeToString(HmacSum(FormatInt(timestamp) \o <<".">> \o payload, secret))
        v == <<"v", "1", "=">> \o h
    IN { Join(<<v, t>>, ","),
         Join(<<t, v, <<"x", "=", "1">> >>, ","),
         <<" ", "t", " ", "=", " ">> \o FormatInt(timestamp)
            \o <<" ", ",", " ", "v", "1", " ", "=", " ">> \o h \o <<" ">>,
         Join(<<<<"t", "=", "+">> \o FormatInt(timestamp), v>>, ","),
         Join(<<<<"t", "=", "0">> \o FormatInt(timestamp), v>>, ","),
         Join(<<<<"t", "=", "0">>, t, v>>, ","),
         Join(<<t, <<"t", "=", "0">>, v>>, ","),
         Join(<<<<"t", "=", "x">>, t, v>>, ","),
         Join(<<<<"v", "1", "=">>, v, t>>, ","),
         Join(<<v, <<"v", "1", "=">>, t>>, ","),
         Join(<<t, <<"v", "1", "=", "=">> \o h>>, ",") }

\* tokens that lack a part
MalformedSignatures ==
    { <<>>,
      <<"x">>,
      <<",">>,
      <<"t", "=", "2">>,
      <<"v", "1", "=", "a", "b">>,
      <<"t", "=", "x", ",", "v", "1", "=", "a", "b">>,
      <<"t", "=", ",", "v", "1", "=", "a", "b">>,
      <<"t", "=", "0", ",", "v", "1", "=", "a", "b">>,
      <<"t", "=", "9", "9", "9", "9", ",", "v", "1", "=", "a", "b">>,
      <<"t", "=", "2", ",", "v", "1", "=">>,
      <<"t", "=", "2", ",", "x", "=", "1">>,
      <<"t", ",", "v", "1">>,
      <<"x", "=", "2", ",", "v", "1", "=", "a", "b">> }

\* the signatures a call may be given with payload and secret
Signatures(payload, secret) ==
    { generateTestSignature(payload, secret, t) : t \in TokenTimes }
    \cup { generateTestSignature(payload, <<"j">>, t) : t \in TokenTimes }
    \cup { generateTestSignature(<<"{", "}">>, secret, t) : t \in {StartNow, MaxNow} }
    \cup UNION { TokenVariants(payload, secret, t) : t \in {StartNow, MaxNow + 2} }
    \cup MalformedSignatures

(***************************************************************************)
(* The state machine: a caller (the webhook handler of examples/webhook,   *)
(* or a test) calls one of the two functions at the current clock time,    *)
(* gets its result, and goes on to the next call.                          *)
(***************************************************************************)
NoArgs == [none |-> TRUE]

\* the goroutines that call VerifyWebhook at the same time
Procs == {"c1", "c2"}

\* a goroutine that is not in a call
IdleCall == [pc |-> "idle", args |-> NoArgs, clock |-> 0, result |-> [none |-> TRUE],
             overlapped |-> FALSE]

\* the local variables of a call: sigTimestamp, sigHash and now
NoFrame == [sigTimestamp |-> 0, sigHash |-> <<>>, now |-> 0]
NoRequest == [none |-> TRUE]
NoResult == [none |-> TRUE]
NoTamper == [field |-> "none"]

\* New is not called
NoNewCall == [pc |-> "idle"]

\* no builder is made, no payload allocated
NoBuilder == [pc |-> "none"]
NoPayload == [none |-> TRUE]

\* no call of New, no builder of a goroutine
InitConfig ==
    /\ newCall = NoNewCall
    /\ httpClients = HTTPClients0

InitShared ==
    /\ builders = [p \in Procs |-> NoBuilder]
    /\ payloads = [p \in Procs |-> NoPayload]
    /\ setOn = [p \in Procs |-> {}]
    /\ sentBy = [p \in Procs |-> <<>>]

\* no call was made on the builder yet
NoCall == [method |-> "none"]

\* the list setters and IdempotencyKey were not called since Email
NothingSaid == [To |-> <<>>, CC |-> <<>>, BCC |-> <<>>, ReplyTo |-> <<>>, key |-> ""]

Init ==
    /\ now = StartNow
    /\ pc = "idle"
    /\ fn = "none"
    /\ args = NoArgs
    /\ req = NoRequest
    /\ result = NoResult
    /\ tamper = NoTamper
    /\ bodyState = UnreadBody
    /\ calls = [p \in Procs |-> IdleCall]
    /\ frames = [p \in Procs |-> NoFrame]
    /\ client = DefaultClient
    /\ builder = Email(DefaultClient)
    /\ emailPc = "building"
    /\ sendResult = NoResult
    /\ requests = <<>>
    /\ lastCall = NoCall
    /\ said = NothingSaid
    /\ InitConfig
    /\ InitShared

\* time passes between calls
Tick ==
    /\ pc = "idle"
    /\ now < MaxNow
    /\ now' = now + 1
    /\ UNCHANGED <<pc, fn, args, req, result, tamper, bodyState>>
    /\ UNCHANGED <<concurrentVars, emailVars, configVars, sharedVars>>

CallVerifyWebhook ==
    /\ pc = "idle"
    /\ \E payload \in Payloads, signingSecret \in Secrets,
          tolerance \in Tolerances, deliveryTimestamp \in DeliveryTimestamps :
         \E signature \in Signatures(payload, signingSecret) :
            /\ args' = [signature |-> signature, payload |-> payload,
                        deliveryTimestamp |-> deliveryTimestamp,
                        signingSecret |-> signingSecret, tolerance |-> tolerance]
            /\ result' = VerifyWebhook(signature, payload, deliveryTimestamp,
                                       signingSecret, tolerance, now)
    /\ pc' = "returned"
    /\ fn' = "VerifyWebhook"
    /\ UNCHANGED <<now, req, tamper, bodyState>>
    /\ UNCHANGED <<concurrentVars, emailVars, configVars, sharedVars>>

\* the caller is done with the result
Return ==
    /\ pc = "returned"
    /\ pc' = "idle"
    /\ fn' = "none"
    /\ args' = NoArgs
    /\ req' = NoRequest
    /\ result' = NoResult
    /\ tamper' = NoTamper
    /\ bodyState' = UnreadBody
    /\ UNCHANGED now
    /\ UNCHANGED <<concurrentVars, emailVars, configVars, sharedVars>>

\* the requests the handler may receive
Requests ==
    LET sigs(payload, secret) ==
            { <<>>, <<"x">>,
              generateTestSignature(payload, secret, StartNow),
              generateTestSignature(payload, secret, MaxNow + 1),
              generateTestSignature(payload, <<"j">>, StartNow),
              generateTestSignature(<<"{", "}">>, secret, StartNow) }
        deliveries == { <<>>, FormatInt(StartNow), FormatInt(MaxNow + 1), <<"x">>,
                        <<" ">> \o FormatInt(StartNow), <<"+">> \o FormatInt(StartNow),
                        <<"0">> }
        headers(sig, del) ==
            { [h \in {HeaderSignature, HeaderDelivery} |->
                  IF h = HeaderSignature THEN sig ELSE del],
              [h \in {HeaderSignature} |-> sig],
              [h \in {HeaderDelivery} |-> del],
              [h \in {} |-> <<>>] }
    IN { [header |-> hd, body |-> [data |-> payload, fails |-> fails]] :
           <<hd, payload, fails>> \in
              UNION { (UNION { headers(sig, del) :
                                  <<sig, del>> \in sigs(body, <<"k">>) \X deliveries })
                      \X {body} \X BOOLEAN :
                      body \in { <<"{", "}">>, <<"x">>, <<>> } } }

CallVerifyWebhookFromRequest ==
    /\ pc = "idle"
    /\ \E r \in Requests, signingSecret \in Secrets, tolerance \in Tolerances :
         /\ req' = r
         /\ args' = [signingSecret |-> signingSecret, tolerance |-> tolerance]
         /\ result' = VerifyWebhookFromRequest(r, signingSecret, tolerance, now)
         /\ bodyState' = BodyAfterVerifyWebhookFromRequest(r)
    /\ pc' = "returned"
    /\ fn' = "VerifyWebhookFromRequest"
    /\ UNCHANGED <<now, tamper>>
    /\ UNCHANGED <<concurrentVars, emailVars, configVars, sharedVars>>

\* the bytes a tampered input is given
TamperBytes == { "0", " ", ",", NUL }

\* whether the token is written as generateTestSignature writes it
IsCanonicalToken(signature) ==
    LET sig == parseSignature(signature)
    IN /\ sig.err = NoError
       /\ signature = <<"t", "=">> \o FormatInt(sig.timestamp)
                        \o <<",", "v", "1", "=">> \o sig.hash

\* the positions of the v1 value in a canonical token
HashPositions(signature) == (IndexByte(signature, ",") + 4)..Len(signature)

\* after a call that verified, the same call with one byte of the payload, of
\* the secret or of the token's hash changed (TestVerifyWebhook_InvalidSignature,
\* TestVerifyWebhook_WrongSecret); tamper keeps the field changed and the
\* arguments of the call that verified
TamperedCall ==
    /\ pc = "returned"
    /\ fn = "VerifyWebhook"
    /\ tamper = NoTamper
    /\ result.err = NoError
    /\ \E field \in {"payload", "secret", "hash"}, c \in TamperBytes :
         LET old == IF field = "payload" THEN args.payload
                    ELSE IF field = "secret" THEN args.signingSecret
                    ELSE args.signature
             positions == IF field = "hash"
                          THEN (IF IsCanonicalToken(args.signature)
                                THEN HashPositions(args.signature) ELSE {})
                          ELSE 1..Len(old)
         IN \E i \in positions :
              LET new == [old EXCEPT ![i] = c]
                  a == IF field = "payload" THEN [args EXCEPT !.payload = new]
                       ELSE IF field = "secret" THEN [args EXCEPT !.signingSecret = new]
                       ELSE [args EXCEPT !.signature = new]
              IN /\ old[i] /= c
                 /\ args' = a
                 /\ result' = VerifyWebhook(a.signature, a.payload, a.deliveryTimestamp,
                                            a.signingSecret, a.tolerance, now)
                 /\ tamper' = [field |-> field, base |-> args]
    /\ UNCHANGED <<now, pc, fn, req, bodyState>>
    /\ UNCHANGED <<concurrentVars, emailVars, configVars, sharedVars>>

Next ==
    \/ Tick
    \/ CallVerifyWebhook
    \/ CallVerifyWebhookFromRequest
    \/ TamperedCall
    \/ Return

Spec == Init /\ [][Next]_vars

(***************************************************************************)
(* secureCompare on its own, as TestSecureCompare calls it: every pair of  *)
(* strings of up to MaxCompareLen bytes.                                   *)
(***************************************************************************)
MaxCompareLen == 3

CompareStrings == UNION { [1..n -> {"a", "b"}] : n \in 0..MaxCompareLen }

CallSecureCompare ==
    /\ pc = "idle"
    /\ \E a \in CompareStrings, b \in CompareStrings :
         /\ args' = [a |-> a, b |-> b]
         /\ result' = [equal |-> secureCompare(a, b)]
    /\ pc' = "returned"
    /\ fn' = "secureCompare"
    /\ UNCHANGED <<now, req, tamper, bodyState>>
    /\ UNCHANGED <<concurrentVars, emailVars, configVars, sharedVars>>

NextCompare ==
    \/ CallSecureCompare
    \/ Return

SpecCompare == Init /\ [][NextCompare]_vars

(***************************************************************************)
(* Concurrent calls of VerifyWebhook.  Each goroutine runs the function    *)
(* gate by gate; between two gates of one call the other call and the      *)
(* clock may move.  The function keeps what it parsed in local variables:  *)
(* frames[FrameOf(p)] is the stack frame of the call of p.                 *)
(***************************************************************************)
\* the arguments the concurrent calls are made with
ConcurrentArgs ==
    LET event == <<"{", QUOTE, "i", "d", QUOTE, ":", QUOTE, "a", QUOTE, "}">>
        call(signature, payload, deliveryTimestamp, signingSecret, tolerance) ==
            [signature |-> signature, payload |-> payload,
             deliveryTimestamp |-> deliveryTimestamp,
             signingSecret |-> signingSecret, tolerance |-> tolerance]
    IN { call(generateTestSignature(event, <<"k">>, StartNow), event, 0, <<"k">>, Second),
         call(generateTestSignature(<<"{", "}">>, <<"k", "j">>, StartNow + 1),
              <<"{", "}">>, StartNow + 1, <<"k", "j">>, Second),
         call(generateTestSignature(event, <<"k">>, StartNow), event, 0, <<"k">>, 0),
         call(generateTestSignature(event, <<"j">>, StartNow), event, 0, <<"k">>, Second),
         call(generateTestSignature(<<"x">>, <<"k">>, StartNow), <<"x">>, 0, <<"k">>, Second),
         call(generateTestSignature(event, <<"k">>, StartNow), event, StartNow + 1,
              <<"k">>, Second),
         call(generateTestSignature(event, <<>>, StartNow), event, 0, <<>>, Second),
         call(<<"x">>, event, 0, <<"k">>, Second) }

\* a mutant of FrameOf: the locals are package-level variables, one copy for
\* all calls
FrameOf_Shared(p) == "c1"

\* each call has its own sigTimestamp, sigHash and now
FrameOf(p) == p

\* the call of p is between its first and its last gate
InCall(p) == calls[p].pc \notin {"idle", "done"}

\* p takes a step: its call moves to pc (with result once done), and p notes
\* whether another call was under way at that moment
Advance(p, to, res) ==
    calls' = [calls EXCEPT ![p] =
                [@ EXCEPT !.pc = to, !.result = res,
                          !.overlapped = @ \/ \E q \in Procs \ {p} : InCall(q)]]

\* p calls VerifyWebhook
CallBegin(p) ==
    /\ calls[p].pc = "idle"
    /\ \E a \in ConcurrentArgs :
         calls' = [calls EXCEPT ![p] = [IdleCall EXCEPT !.pc = "parse", !.args = a,
                                                          !.clock = now]]
    /\ UNCHANGED <<webhookVars, emailVars, configVars, sharedVars, frames>>

\* the secret, the signature and parseSignature
CallParse(p) ==
    /\ calls[p].pc = "parse"
    /\ LET a == calls[p].args
           sig == parseSignature(a.signature)
       IN IF MissingSecret(a.signingSecret)
          THEN /\ Advance(p, "done", Reject(Errorf(ErrInvalidWebhookSignature,
                                                    "signing secret is required"), <<>>))
               /\ UNCHANGED frames
          ELSE IF MissingSignature(a.signature)
          THEN /\ Advance(p, "done", Reject(Errorf(ErrInvalidWebhookSignature,
                                                    "signature is required"), <<>>))
               /\ UNCHANGED frames
          ELSE IF sig.err /= NoError
          THEN /\ Advance(p, "done", Reject(sig.err, <<>>))
               /\ UNCHANGED frames
          ELSE /\ Advance(p, "delivery", calls[p].result)
               /\ frames' = [frames EXCEPT ![FrameOf(p)] =
                                [@ EXCEPT !.sigTimestamp = sig.timestamp,
                                          !.sigHash = sig.hash]]
    /\ UNCHANGED <<webhookVars, emailVars, configVars, sharedVars>>

\* the delivery timestamp against sigTimestamp
CallDelivery(p) ==
    /\ calls[p].pc = "delivery"
    /\ IF DeliveryMismatch(calls[p].args.deliveryTimestamp, frames[FrameOf(p)].sigTimestamp)
       THEN Advance(p, "done",
                    Reject(Errorf(ErrInvalidWebhookSignature,
                                  "timestamp mismatch between signature and delivery headers"),
                           <<>>))
       ELSE Advance(p, "clock", calls[p].result)
    /\ UNCHANGED <<webhookVars, emailVars, configVars, sharedVars, frames>>

\* now := time.Now().Unix()
CallClock(p) ==
    /\ calls[p].pc = "clock"
    /\ calls' = [calls EXCEPT ![p] =
                   [@ EXCEPT !.pc = "tolerance", !.clock = now,
                             !.overlapped = @ \/ \E q \in Procs \ {p} : InCall(q)]]
    /\ frames' = [frames EXCEPT ![FrameOf(p)] = [@ EXCEPT !.now = now]]
    /\ UNCHANGED <<webhookVars, emailVars, configVars, sharedVars>>

\* the tolerance gate
CallTolerance(p) ==
    /\ calls[p].pc = "tolerance"
    /\ LET f == frames[FrameOf(p)]
       IN IF ToleranceExceeded(AgeSeconds(f.now, f.sigTimestamp), calls[p].args.tolerance)
          THEN Advance(p, "done",
                       Reject(Errorf(ErrWebhookTimestampExpired, "timestamp is too old"),
                              <<>>))
          ELSE Advance(p, "hmac", calls[p].result)
    /\ UNCHANGED <<webhookVars, emailVars, configVars, sharedVars, frames>>

\* the HMAC comparison and the JSON parse
CallHmac(p) ==
    /\ calls[p].pc = "hmac"
    /\ LET f == frames[FrameOf(p)]
           a == calls[p].args
       IN Advance(p, "done",
                  CheckHashThenParse(f.sigTimestamp, f.sigHash, a.payload,
                                     a.signingSecret, <<>>))
    /\ UNCHANGED <<webhookVars, emailVars, configVars, sharedVars, frames>>

\* the call has returned: its frame is gone, the caller is done with the result
CallEnd(p) ==
    /\ calls[p].pc = "done"
    /\ calls' = [calls EXCEPT ![p] = IdleCall]
    /\ frames' = [frames EXCEPT ![FrameOf(p)] = NoFrame]
    /\ UNCHANGED <<webhookVars, emailVars, configVars, sharedVars>>

NextConcurrent ==
    \/ Tick
    \/ \E p \in Procs : CallBegin(p)
    \/ \E p \in Procs : CallParse(p)
    \/ \E p \in Procs : CallDelivery(p)
    \/ \E p \in Procs : CallClock(p)
    \/ \E p \in Procs : CallTolerance(p)
    \/ \E p \in Procs : CallHmac(p)
    \/ \E p \in Procs : CallEnd(p)

SpecConcurrent == Init /\ [][NextConcurrent]_vars

(***************************************************************************)
(* Composing and sending an email: a client, one builder obtained from it, *)
(* the builder's setters in any order, and Send with whatever the          *)
(* transport does.                                                         *)
(***************************************************************************)
MaxRecipients == 2

\* base URLs a client is made with: the default, one ending in a slash, one
\* url.Parse rejects
BaseURLs == { DefaultBaseURL, <<"u", "/">>, <<"u", NUL>> }

Statuses == { 200, 302, 399, 400, 401, 404, 422, 429, 499, 500, 503 }

ResponseBodies ==
    { <<"{", QUOTE, "m", "e", "s", "s", "a", "g", "e", "_", "i", "d", QUOTE, ":",
        QUOTE, "a", QUOTE, "}">>,
      <<"{", QUOTE, "m", "e", "s", "s", "a", "g", "e", QUOTE, ":", QUOTE, "m", QUOTE, "}">>,
      <<"{", QUOTE, "s", "t", "a", "t", "u", "s", QUOTE, ":", "1", "}">>,
      <<"x">>,
      <<>> }

\* what httpClient.Do may do with a request
Transports ==
    { [kind |-> "error", ctxErr |-> "nil", timedOut |-> "no"],
      [kind |-> "error", ctxErr |-> "nil", timedOut |-> "client"],
      [kind |-> "error", ctxErr |-> "context.DeadlineExceeded", timedOut |-> "context"],
      [kind |-> "error", ctxErr |-> "context.Canceled", timedOut |-> "no"] }
    \cup { [kind |-> "response", status |-> st, body |-> bd, readFails |-> FALSE,
             timedOut |-> "no"] : st \in Statuses, bd \in ResponseBodies }
    \cup { [kind |-> "response", status |-> st, body |-> bd, readFails |-> TRUE,
             timedOut |-> t] :
              st \in Statuses, bd \in ResponseBodies, t \in {"no", "context", "client"} }

InitEmail ==
    /\ now = StartNow
    /\ pc = "idle"
    /\ fn = "none"
    /\ args = NoArgs
    /\ req = NoRequest
    /\ result = NoResult
    /\ tamper = NoTamper
    /\ bodyState = UnreadBody
    /\ calls = [p \in Procs |-> IdleCall]
    /\ frames = [p \in Procs |-> NoFrame]
    /\ client \in { ClientWith("token", u) : u \in BaseURLs }
    /\ builder = Email(client)
    /\ emailPc = "building"
    /\ sendResult = NoResult
    /\ requests = <<>>
    /\ lastCall = NoCall
    /\ said = NothingSaid
    /\ InitConfig
    /\ InitShared

\* the four list setters
ListSetters == {"To", "CC", "BCC", "ReplyTo"}

\* the number of addresses the builder holds
Recipients(b) ==
    Len(b.payload.To) + Len(b.payload.CC) + Len(b.payload.BCC) + Len(b.payload.ReplyTo)

\* a call of a method of the builder other than Send made it b
Build(b, method, arg) ==
    /\ emailPc = "building"
    /\ builder' = b
    /\ lastCall' = [method |-> method, arg |-> arg, before |-> builder]
    /\ said' = IF method = "Email" THEN NothingSaid
               ELSE IF method \in ListSetters THEN [said EXCEPT ![method] = @ \o arg]
               ELSE IF method = "IdempotencyKey" THEN [said EXCEPT !.key = arg]
               ELSE said
    /\ UNCHANGED <<webhookVars, concurrentVars, configVars, sharedVars, client, emailPc, sendResult, requests>>

CallEmail == Build(Email(client), "Email", <<>>)

CallFrom == \E email \in {"", "f"} : Build(From(builder, email), "From", email)

CallTo ==
    \E emails \in { <<>>, <<"t">>, <<"t", "u">> } :
       /\ Recipients(builder) + Len(emails) <= MaxRecipients
       /\ Build(To(builder, emails), "To", emails)

CallCC ==
    \E emails \in { <<"c">>, <<"d">>, <<"d", "c">> } :
       /\ Recipients(builder) + Len(emails) <= MaxRecipients
       /\ Build(CC(builder, emails), "CC", emails)

CallBCC ==
    \E emails \in { <<"b">> } :
       /\ Recipients(builder) + Len(emails) <= MaxRecipients
       /\ Build(BCC(builder, emails), "BCC", emails)

CallReplyTo ==
    \E emails \in { <<"r">>, <<"t">> } :
       /\ Recipients(builder) + Len(emails) <= MaxRecipients
       /\ Build(ReplyTo(builder, emails), "ReplyTo", emails)

CallSubject == \E subject \in {"", "s"} : Build(Subject(builder, subject), "Subject", subject)

CallHTML == \E html \in {"", "h"} : Build(HTML(builder, html), "HTML", html)

CallText == \E text \in {"", "x"} : Build(Text(builder, text), "Text", text)

CallIdempotencyKey ==
    \E key \in {"", "k", "l"} : Build(IdempotencyKey(builder, key), "IdempotencyKey", key)

CallSend ==
    /\ emailPc = "building"
    /\ \E transport \in Transports :
         LET r == Send(builder, transport)
         IN /\ sendResult' = [resp |-> r.resp, err |-> r.err, transport |-> transport]
            /\ requests' = r.requests
    /\ builder' = BuilderAfterSend(builder)
    /\ lastCall' = [method |-> "Send", arg |-> <<>>, before |-> builder]
    /\ emailPc' = "sent"
    /\ UNCHANGED <<webhookVars, concurrentVars, configVars, sharedVars, client, said>>

\* the caller is done with what Send returned
SendReturn ==
    /\ emailPc = "sent"
    /\ emailPc' = "building"
    /\ sendResult' = NoResult
    /\ requests' = <<>>
    /\ UNCHANGED <<webhookVars, concurrentVars, configVars, sharedVars, client, builder, lastCall, said>>

NextEmail ==
    \/ CallEmail
    \/ CallFrom
    \/ CallTo
    \/ CallSubject
    \/ CallHTML
    \/ CallText
    \/ CallIdempotencyKey
    \/ CallSend
    \/ SendReturn

SpecEmail == InitEmail /\ [][NextEmail]_vars

(***************************************************************************)
(* The calls that compose an email: every setter of the builder, with the  *)
(* carbon-copy and reply-to lists, and no Send.                            *)
(***************************************************************************)
NextBuilder ==
    \/ CallEmail
    \/ CallFrom
    \/ CallTo
    \/ CallCC
    \/ CallBCC
    \/ CallReplyTo
    \/ CallSubject
    \/ CallHTML
    \/ CallText
    \/ CallIdempotencyKey

SpecBuilder == InitEmail /\ [][NextBuilder]_vars

(***************************************************************************)
(* The calls of New, with every sequence of up to MaxOptions options.      *)
(***************************************************************************)
MaxOptions == 3

Timeouts == { Second, 60 * Second }

Options ==
    { WithBaseURL(u) : u \in { <<"u", "/">>, <<"v">> } }
    \cup { WithTimeout(d) : d \in Timeouts }
    \cup { WithHTTPClient(h) : h \in CallerHTTPClients }

RECURSIVE OptionLists(_)
\* the sequences of at most n options
OptionLists(n) ==
    IF n = 0 THEN { <<>> }
    ELSE OptionLists(n - 1)
           \cup { Append(l, o) : l \in { k \in OptionLists(n - 1) : Len(k) = n - 1 },
                                 o \in Options }

CallNew ==
    /\ newCall.pc = "idle"
    /\ \E apiToken \in {"", "token"}, opts \in OptionLists(MaxOptions) :
         LET r == New(apiToken, opts, httpClients)
         IN /\ newCall' = [pc |-> "returned", apiToken |-> apiToken, opts |-> opts,
                            before |-> httpClients, client |-> r.client, err |-> r.err]
            /\ httpClients' = r.heap
    /\ UNCHANGED <<webhookVars, concurrentVars, emailVars, sharedVars>>

\* the caller is done with what New returned
NewReturn ==
    /\ newCall.pc = "returned"
    /\ newCall' = NoNewCall
    /\ UNCHANGED <<webhookVars, concurrentVars, emailVars, sharedVars, httpClients>>

NextNew ==
    \/ CallNew
    \/ NewReturn

SpecNew == Init /\ [][NextNew]_vars

(***************************************************************************)
(* Two goroutines that each make a builder from the one client and call    *)
(* its setters and Send, in any interleaving.  A builder points to its     *)
(* payload; the client is the value every builder points to.               *)
(***************************************************************************)
\* the values a goroutine gives to the setters of its builder
ValuesOf ==
    [c1 |-> [From |-> "f1", To |-> <<"t1">>, Subject |-> "s1", Text |-> "x1", key |-> "k1"],
     c2 |-> [From |-> "f2", To |-> <<"t2">>, Subject |-> "s2", Text |-> "x2", key |-> "k2"]]

\* a mutant of PayloadOf: every builder points to the same payload
PayloadOf_Shared(p) == "c1"

\* payload: &emailPayload{...}: the payload Email allocates for the builder
\* of goroutine p
PayloadOf(p) == p

\* the builder of goroutine p, with what it points to
LoadBuilder(p) ==
    [client |-> client, payload |-> payloads[builders[p].payload],
     idempotencyKey |-> builders[p].idempotencyKey]

\* a method of the builder of goroutine p made it b, with these values
StoreBuilder(p, b, values) ==
    /\ builders' = [builders EXCEPT ![p].idempotencyKey = b.idempotencyKey]
    /\ payloads' = [payloads EXCEPT ![builders[p].payload] = b.payload]
    /\ client' = b.client
    /\ setOn' = [setOn EXCEPT ![p] = @ \cup values]
    /\ UNCHANGED <<webhookVars, concurrentVars, configVars, builder, emailPc, sendResult,
                   requests, lastCall, said>>

GoEmail(p) ==
    LET b == Email(client)
    IN /\ builders' = [builders EXCEPT ![p] = [pc |-> "building", payload |-> PayloadOf(p),
                                               idempotencyKey |-> b.idempotencyKey]]
       /\ payloads' = [payloads EXCEPT ![PayloadOf(p)] = b.payload]
       /\ client' = b.client
       /\ setOn' = [setOn EXCEPT ![p] = {}]
       /\ sentBy' = [sentBy EXCEPT ![p] = <<>>]
       /\ UNCHANGED <<webhookVars, concurrentVars, configVars, builder, emailPc, sendResult,
                      requests, lastCall, said>>

GoFrom(p) ==
    /\ builders[p].pc = "building"
    /\ StoreBuilder(p, From(LoadBuilder(p), ValuesOf[p].From), {ValuesOf[p].From})
    /\ UNCHANGED sentBy

GoTo(p) ==
    /\ builders[p].pc = "building"
    /\ Len(payloads[builders[p].payload].To) < MaxRecipients
    /\ StoreBuilder(p, To(LoadBuilder(p), ValuesOf[p].To), {ValuesOf[p].To[1]})
    /\ UNCHANGED sentBy

GoSubject(p) ==
    /\ builders[p].pc = "building"
    /\ StoreBuilder(p, Subject(LoadBuilder(p), ValuesOf[p].Subject), {ValuesOf[p].Subject})
    /\ UNCHANGED sentBy

GoText(p) ==
    /\ builders[p].pc = "building"
    /\ StoreBuilder(p, Text(LoadBuilder(p), ValuesOf[p].Text), {ValuesOf[p].Text})
    /\ UNCHANGED sentBy

GoIdempotencyKey(p) ==
    /\ builders[p].pc = "building"
    /\ StoreBuilder(p, IdempotencyKey(LoadBuilder(p), ValuesOf[p].key), {ValuesOf[p].key})
    /\ UNCHANGED sentBy

GoSend(p) ==
    /\ builders[p].pc = "building"
    /\ \E transport \in { t \in Transports : t.kind = "error" } :
          sentBy' = [sentBy EXCEPT ![p] = Send(LoadBuilder(p), transport).requests]
    /\ StoreBuilder(p, BuilderAfterSend(LoadBuilder(p)), {})

NextShared ==
    \E p \in Procs :
       \/ GoEmail(p)
       \/ GoFrom(p)
       \/ GoTo(p)
       \/ GoSubject(p)
       \/ GoText(p)
       \/ GoIdempotencyKey(p)
       \/ GoSend(p)

SpecShared == Init /\ [][NextShared]_vars

(***************************************************************************)
(* Properties of the verifier.                                             *)
(***************************************************************************)
\* a call of VerifyWebhook has returned; args are its arguments
Verified == pc = "returned" /\ fn = "VerifyWebhook"

\* |clock - timestamp| in seconds is within the tolerance, in exact arithmetic
WithinTolerance(timestamp, tolerance) == Abs(now - timestamp) * Second <= tolerance

\* hex(HMAC-SHA256(secret, "<timestamp>.<payload>"))
SenderHash(payload, secret, timestamp) ==
    EncodeToString(HmacSum(FormatInt(timestamp) \o <<".">> \o payload, secret))

\* the payloads that are JSON objects with fields of the event's types
WellFormedEvents ==
    { <<"{", QUOTE, "i", "d", QUOTE, ":", QUOTE, "a", QUOTE, "}">>, <<"{", "}">> }

HasStep(step) == \E i \in 1..Len(result.steps) : result.steps[i] = step

\* C1: VerifyWebhook returns an event only if every gate before passed for
\* that call: the secret and the signature are not empty, the token parsed,
\* the delivery timestamp is 0 or the token's, |now - timestamp| is within
\* the tolerance, and the token's v1 is the HMAC of "<timestamp>.<payload>"
\* under the secret; and a call whose HMAC comparison failed never reaches
\* the JSON parse.
C1_EventOnlyAfterAllGates ==
    Verified =>
      LET sig == parseSignature(args.signature)
          gates ==
            /\ args.signingSecret /= <<>>
            /\ args.signature /= <<>>
            /\ sig.err = NoError
            /\ args.deliveryTimestamp = 0 \/ args.deliveryTimestamp = sig.timestamp
            /\ WithinTolerance(sig.timestamp, args.tolerance)
            /\ sig.hash = SenderHash(args.payload, args.signingSecret, sig.timestamp)
      IN /\ result.event /= Nil => gates
         /\ HasStep("json") =>
              /\ sig.err = NoError
              /\ sig.hash = SenderHash(args.payload, args.signingSecret, sig.timestamp)

\* the round trip of C2 for the token made at timestamp T
C2_RoundTripAt(T) ==
    ( /\ Verified
      /\ args.signingSecret /= <<>>
      /\ args.deliveryTimestamp = 0
      /\ WithinTolerance(T, args.tolerance)
      /\ args.signature = generateTestSignature(args.payload, args.signingSecret, T) )
    => /\ ~ErrorsIs(result.err, ErrInvalidWebhookSignature)
       /\ ~ErrorsIs(result.err, ErrWebhookTimestampExpired)
       /\ args.payload \in WellFormedEvents =>
            result.event /= Nil /\ result.err = NoError

C3_TamperSensitivity ==
    (pc = "returned" /\ tamper /= NoTamper) =>
      LET base == tamper.base
          sig == parseSignature(base.signature)
      IN WithinTolerance(sig.timestamp, base.tolerance) =>
           /\ ErrorsIs(result.err, ErrInvalidWebhookSignature)
           /\ result.event = Nil

C3_Witness ==
    /\ pc = "returned"
    /\ tamper /= NoTamper
    /\ tamper.field = "secret"
    /\ tamper.base.signingSecret = <<"k", "j">>
    /\ args.signingSecret = <<"k", NUL>>
    /\ WithinTolerance(parseSignature(args.signature).timestamp, args.tolerance)
    /\ ErrorsIs(result.err, ErrInvalidWebhookSignature)

\* a call with the token made for its payload, secret and timestamp T, T not 0
C4_ValidTokenAt(T) ==
    /\ Verified
    /\ args.signingSecret /= <<>>
    /\ T /= 0
    /\ args.deliveryTimestamp \in {0, T}
    /\ args.signature = generateTestSignature(args.payload, args.signingSecret, T)

\* C4: for an otherwise valid token, the tolerance gate passes when |now - T|
\* in seconds equals the tolerance, the call fails with
\* ErrWebhookTimestampExpired when |now - T| is the tolerance plus one second,
\* and a token as far in the future as this one is in the past (or the
\* reverse) has the same outcome.
C4_ToleranceBoundary ==
    \A T \in TokenTimes :
      C4_ValidTokenAt(T) =>
        /\ Abs(now - T) * Second = args.tolerance =>
             ~ErrorsIs(result.err, ErrWebhookTimestampExpired) /\ HasStep("hmac")
        /\ Abs(now - T) * Second = args.tolerance + Second =>
             ErrorsIs(result.err, ErrWebhookTimestampExpired) /\ result.event = Nil
        /\ LET M == now + (now - T)
               mirrored ==
                 VerifyWebhook(generateTestSignature(args.payload, args.signingSecret, M),
                               args.payload,
                               IF args.deliveryTimestamp = 0 THEN 0 ELSE M,
                               args.signingSecret, args.tolerance, now)
           IN (M /= 0 /\ M >= MinInt /\ M <= MaxInt) =>
                /\ mirrored.err.is = result.err.is
                /\ (mirrored.event = Nil) = (result.event = Nil)

\* C5: with a valid token within the tolerance and a well-formed payload, the
\* call succeeds when the delivery timestamp is the token's timestamp or 0,
\* and fails with ErrInvalidWebhookSignature for every other delivery timestamp.
C5_CrossCheck ==
    \A T \in TokenTimes \ {0} :
      ( /\ Verified
        /\ args.signingSecret /= <<>>
        /\ WithinTolerance(T, args.tolerance)
        /\ args.payload \in WellFormedEvents
        /\ args.signature = generateTestSignature(args.payload, args.signingSecret, T) )
      => /\ args.deliveryTimestamp \in {0, T} =>
              result.err = NoError /\ result.event /= Nil
         /\ args.deliveryTimestamp \notin {0, T} =>
              ErrorsIs(result.err, ErrInvalidWebhookSignature) /\ result.event = Nil

C5_Witness ==
    /\ Verified
    /\ args.signature = generateTestSignature(args.payload, args.signingSecret, now)
    /\ args.payload \in WellFormedEvents
    /\ args.deliveryTimestamp \notin {0, now}
    /\ args.tolerance = Second
    /\ result.err = Errorf(ErrInvalidWebhookSignature,
                           "timestamp mismatch between signature and delivery headers")

\* the comma-separated segments of a token, and its key=value pairs
Segments(signature) == Split(signature, ",")
IsPair(seg) == IndexByte(seg, "=") /= 0
PairKey(seg) == TrimSpace(SubSeq(seg, 1, IndexByte(seg, "=") - 1))
PairValue(seg) == TrimSpace(SubSeq(seg, IndexByte(seg, "=") + 1, Len(seg)))
PairsWithKey(signature, key) ==
    {i \in 1..Len(Segments(signature)) :
        IsPair(Segments(signature)[i]) /\ PairKey(Segments(signature)[i]) = key}
ValueAt(signature, i) == PairValue(Segments(signature)[i])
LastOf(S) == CHOOSE i \in S : \A j \in S : j <= i

\* a base-10 integer: an optional sign and at least one digit
IsDecimalInteger(s) ==
    LET d == IF Len(s) > 0 /\ s[1] \in {"+", "-"} THEN Tail(s) ELSE s
    IN Len(d) > 0 /\ \A i \in 1..Len(d) : IsDigit(d[i])
IsZeroInteger(s) ==
    /\ IsDecimalInteger(s)
    /\ \A i \in 1..Len(s) : s[i] \in {"+", "-", "0"}

\* malformed as C6 states it: some t value is not an integer or is 0, some v1
\* value is empty
MalformedInSomePair(signature) ==
    LET ts == PairsWithKey(signature, STR_t)
        vs == PairsWithKey(signature, STR_v1)
    IN \/ Len(Segments(signature)) < 2
       \/ ts = {}
       \/ \E i \in ts : ~IsDecimalInteger(ValueAt(signature, i))
       \/ \E i \in ts : IsZeroInteger(ValueAt(signature, i))
       \/ vs = {}
       \/ \E i \in vs : ValueAt(signature, i) = <<>>

\* malformed where a repeated key counts by its last pair
MalformedInLastPair(signature) ==
    LET ts == PairsWithKey(signature, STR_t)
        vs == PairsWithKey(signature, STR_v1)
    IN \/ Len(Segments(signature)) < 2
       \/ ts = {}
       \/ \E i \in ts : ~IsDecimalInteger(ValueAt(signature, i))
       \/ IsZeroInteger(ValueAt(signature, LastOf(ts)))
       \/ vs = {}
       \/ ValueAt(signature, LastOf(vs)) = <<>>

\* C6 as stated: every signature with fewer than two comma-separated segments,
\* without a t key, with a t value that is not a base-10 integer or is 0, or
\* without a v1 key or with an empty v1 value fails with
\* ErrInvalidWebhookSignature, whatever the other arguments and the clock are.
C6_Malformed_AnyPair ==
    (Verified /\ MalformedInSomePair(args.signature)) =>
       ErrorsIs(result.err, ErrInvalidWebhookSignature) /\ result.event = Nil

\* C6, amended: the same, where for a key given more than once the last t
\* value being 0 and the last v1 value being empty count (a t value that is
\* not an integer counts wherever it stands).
C6_Malformed_LastPair ==
    (Verified /\ MalformedInLastPair(args.signature)) =>
       ErrorsIs(result.err, ErrInvalidWebhookSignature) /\ result.event = Nil

C6_Witness ==
    /\ Verified
    /\ args.signingSecret /= <<>>
    /\ args.signature = generateTestSignature(args.payload, args.signingSecret, 0)
    /\ args.payload \in WellFormedEvents
    /\ args.tolerance = MaxWholeSeconds * Second
    /\ result.err = Errorf(ErrInvalidWebhookSignature, "missing timestamp (t=) in signature")
    /\ result.event = Nil

\* C7: a call with an empty secret or an empty signature fails with
\* ErrInvalidWebhookSignature for every payload, delivery timestamp and
\* tolerance, also when the token's v1 is the HMAC under the empty key.
C7_EmptySecretOrSignature ==
    (Verified /\ (args.signingSecret = <<>> \/ args.signature = <<>>)) =>
       ErrorsIs(result.err, ErrInvalidWebhookSignature) /\ result.event = Nil

C7_Witness ==
    /\ Verified
    /\ args.signingSecret = <<>>
    /\ args.signature = generateTestSignature(args.payload, <<>>, now)
    /\ args.payload \in WellFormedEvents
    /\ args.deliveryTimestamp = 0
    /\ result.err = Errorf(ErrInvalidWebhookSignature, "signing secret is required")
    /\ result.event = Nil

\* a call with the token made for its payload and secret at T, within tolerance
C8_CorrectlySignedAt(T) ==
    /\ Verified
    /\ args.signingSecret /= <<>>
    /\ WithinTolerance(T, args.tolerance)
    /\ args.deliveryTimestamp \in {0, T}
    /\ args.signature = generateTestSignature(args.payload, args.signingSecret, T)

\* an error that is neither of the two signature sentinels
IsParseError(err) ==
    /\ err /= NoError
    /\ ~ErrorsIs(err, ErrInvalidWebhookSignature)
    /\ ~ErrorsIs(err, ErrWebhookTimestampExpired)

\* the payloads json.Unmarshal cannot store in a WebhookEvent: not JSON, a
\* JSON value that is neither an object nor null, a field of another type
UndecodablePayloads ==
    { <<"x">>, <<>>, <<"[", "]">>, <<"{", QUOTE, "i", "d", QUOTE, ":", "1", "}">> }

C9_FirstFailingGate ==
    Verified =>
      LET sig == parseSignature(args.signature)
          first ==
            IF args.signingSecret = <<>> THEN "secret"
            ELSE IF args.signature = <<>> THEN "signature"
            ELSE IF sig.err /= NoError THEN "parse"
            ELSE IF args.deliveryTimestamp /= 0 /\ args.deliveryTimestamp /= sig.timestamp
            THEN "delivery"
            ELSE IF ~WithinTolerance(sig.timestamp, args.tolerance) THEN "tolerance"
            ELSE IF sig.hash /= SenderHash(args.payload, args.signingSecret, sig.timestamp)
            THEN "hmac"
            ELSE IF args.payload \in UndecodablePayloads THEN "json"
            ELSE "none"
      IN /\ first \in {"secret", "signature", "parse", "delivery", "hmac"} =>
              ErrorsIs(result.err, ErrInvalidWebhookSignature)
         /\ first = "tolerance" => ErrorsIs(result.err, ErrWebhookTimestampExpired)
         /\ first = "json" => IsParseError(result.err)
         /\ first = "none" => result.err = NoError
         /\ first /= "none" => result.steps[Len(result.steps)] = first

\* C10: for both functions, the returned event is nil exactly when the
\* returned error is not nil.
C10_EventOrError ==
    pc = "returned" => ((result.err /= NoError) <=> (result.event = Nil))

C10_Witness ==
    /\ pc = "returned"
    /\ fn = "VerifyWebhookFromRequest"
    /\ HasStep("json")
    /\ result.err.is = "json.SyntaxError"
    /\ result.event = Nil

\* C11: on every successful VerifyWebhook call the event's RawPayload is
\* the payload that was passed in, byte for byte, whatever the JSON holds.
C11_RawPayload ==
    (Verified /\ result.err = NoError) => result.event.RawPayload = args.payload

C11_Witness ==
    /\ Verified
    /\ result.err = NoError
    /\ args.payload = <<"{", QUOTE, "i", "d", QUOTE, ":", QUOTE, "a", QUOTE, "}">>
    /\ result.event.ID = <<"a">>
    /\ result.event.RawPayload = args.payload

\* a call of VerifyWebhookFromRequest has returned; req is its request
VerifiedFromRequest == pc = "returned" /\ fn = "VerifyWebhookFromRequest"

\* the result is the one VerifyWebhook gives for these values at this clock
SameAsVerifyWebhook(signature, payload, deliveryTimestamp) ==
    LET v == VerifyWebhook(signature, payload, deliveryTimestamp,
                           args.signingSecret, args.tolerance, now)
    IN result.event = v.event /\ result.err = v.err

\* the signature header is missing or empty: ErrInvalidWebhookSignature
C12_SignatureHeaderRequired ==
    (HeaderSignature \notin DOMAIN req.header \/ req.header[HeaderSignature] = <<>>) =>
       ErrorsIs(result.err, ErrInvalidWebhookSignature) /\ result.event = Nil

\* C12 as stated: VerifyWebhookFromRequest fails with
\* ErrInvalidWebhookSignature when the signature header is missing or empty
\* and when the delivery header is present but not a base-10 integer; an
\* absent delivery header is no error and stands for delivery timestamp 0.
C12_HeaderErrors_AnyPresentValue ==
    VerifiedFromRequest =>
      /\ C12_SignatureHeaderRequired
      /\ (HeaderDelivery \in DOMAIN req.header
             /\ ~IsDecimalInteger(req.header[HeaderDelivery])) =>
           ErrorsIs(result.err, ErrInvalidWebhookSignature) /\ result.event = Nil
      /\ (HeaderDelivery \notin DOMAIN req.header /\ HeaderSignature \in DOMAIN req.header
             /\ req.header[HeaderSignature] /= <<>> /\ ~req.body.fails) =>
           SameAsVerifyWebhook(req.header[HeaderSignature], req.body.data, 0)

\* C12, amended: the same, where the delivery header fails the call when its
\* value is not empty and not a base-10 integer; a delivery header that is
\* absent or has the empty value is no error and stands for 0.
C12_HeaderErrors ==
    VerifiedFromRequest =>
      /\ C12_SignatureHeaderRequired
      /\ (HeaderDelivery \in DOMAIN req.header
             /\ req.header[HeaderDelivery] /= <<>>
             /\ ~IsDecimalInteger(req.header[HeaderDelivery])) =>
           ErrorsIs(result.err, ErrInvalidWebhookSignature) /\ result.event = Nil
      /\ ((HeaderDelivery \notin DOMAIN req.header \/ req.header[HeaderDelivery] = <<>>)
             /\ HeaderSignature \in DOMAIN req.header
             /\ req.header[HeaderSignature] /= <<>> /\ ~req.body.fails) =>
           SameAsVerifyWebhook(req.header[HeaderSignature], req.body.data, 0)

C12_Witness ==
    /\ VerifiedFromRequest
    /\ args.signingSecret = <<"k">>
    /\ ~req.body.fails
    /\ HeaderSignature \in DOMAIN req.header
    /\ req.header[HeaderSignature] = generateTestSignature(req.body.data, <<"k">>, now)
    /\ HeaderDelivery \in DOMAIN req.header
    /\ req.header[HeaderDelivery] = <<"x">>
    /\ result.err = Errorf(ErrInvalidWebhookSignature, "invalid delivery header value")
    /\ result.event = Nil

\* C13: when reading the body fails, VerifyWebhookFromRequest returns an
\* error that matches neither sentinel and no event, and the verifier is not
\* called on the bytes read so far.
C13_BodyReadError ==
    (VerifiedFromRequest /\ HasStep("read") /\ req.body.fails) =>
       /\ IsParseError(result.err)
       /\ result.event = Nil
       /\ ~HasStep("secret")

C13_Witness ==
    /\ VerifiedFromRequest
    /\ req.body.fails
    /\ args.signingSecret = <<"k">>
    /\ args.tolerance = Second
    /\ HeaderSignature \in DOMAIN req.header
    /\ req.header[HeaderSignature] = generateTestSignature(req.body.data, <<"k">>, now)
    /\ HeaderDelivery \notin DOMAIN req.header
    /\ req.body.data = <<"{", "}">>
    /\ result.err.is = "io.ErrUnexpectedEOF"
    /\ result.steps = <<"header", "delivery-header", "read">>

\* the integers a delivery header may write, in decimal
DeliveryHeaderValues == (StartNow - 2)..(MaxNow + 2)

\* C15: for a request with a non-empty signature header s, a readable body p
\* and a delivery header that is absent (d = 0) or writes the integer d,
\* VerifyWebhookFromRequest returns what VerifyWebhook(s, p, d, secret,
\* tolerance) returns at the same clock time.
C15_SameAsVerifyWebhook ==
    (VerifiedFromRequest /\ ~req.body.fails /\ HeaderSignature \in DOMAIN req.header
        /\ req.header[HeaderSignature] /= <<>>) =>
       /\ HeaderDelivery \notin DOMAIN req.header =>
            SameAsVerifyWebhook(req.header[HeaderSignature], req.body.data, 0)
       /\ \A d \in DeliveryHeaderValues :
            (HeaderDelivery \in DOMAIN req.header
                /\ req.header[HeaderDelivery] \in {FormatInt(d), <<"+">> \o FormatInt(d)}) =>
               SameAsVerifyWebhook(req.header[HeaderSignature], req.body.data, d)

C15_Witness ==
    /\ VerifiedFromRequest
    /\ ~req.body.fails
    /\ args.signingSecret = <<"k">>
    /\ HeaderSignature \in DOMAIN req.header
    /\ req.header[HeaderSignature] = generateTestSignature(req.body.data, <<"k">>, now)
    /\ HeaderDelivery \in DOMAIN req.header
    /\ req.header[HeaderDelivery] = FormatInt(now)
    /\ result.err = NoError
    /\ result.event.RawPayload = req.body.data

\* C14: after VerifyWebhookFromRequest returns, on every outcome (success,
\* header failure, body-read failure, verification failure), the request
\* body has been read to its end and is closed.
C14_BodyReadAndClosed ==
    VerifiedFromRequest =>
       /\ bodyState.read = (IF req.body.fails THEN "error" ELSE "eof")
       /\ bodyState.closed

\* a call of secureCompare has returned; args are its two strings
Compared == pc = "returned" /\ fn = "secureCompare"

\* C16: secureCompare(a, b) is true exactly when a and b are the same byte
\* string: true for equal strings, two empty ones included, false for
\* differing strings of one length and for strings of unequal length,
\* whichever is the shorter.
C16_SecureCompare ==
    Compared => (result.equal <=> args.a = args.b)

C16_Witness ==
    /\ Compared
    /\ args.a = <<"a", "b">>
    /\ args.b = <<"a">>
    /\ result.equal = FALSE

\* C17: calls of VerifyWebhook share no state: in every interleaving of
\* concurrent calls, each call returns what the call returns when it runs
\* alone at the clock time it read.
C17_IndependentCalls ==
    \A p \in Procs :
       calls[p].pc = "done" =>
          LET a == calls[p].args
              alone == VerifyWebhook(a.signature, a.payload, a.deliveryTimestamp,
                                     a.signingSecret, a.tolerance, calls[p].clock)
          IN calls[p].result.event = alone.event /\ calls[p].result.err = alone.err

C17_Witness ==
    /\ calls["c1"].pc = "done"
    /\ calls["c1"].overlapped
    /\ calls["c1"].result.err = NoError
    /\ calls["c2"].pc = "done"
    /\ calls["c2"].overlapped
    /\ ErrorsIs(calls["c2"].result.err, ErrWebhookTimestampExpired)
    /\ calls["c1"].args.signature = calls["c2"].args.signature

\* Send has returned; builder is the builder it was called on
Sent == emailPc = "sent"

\* httpClient.Do returned a response for this Send
GotResponse == Sent /\ requests /= <<>> /\ sendResult.transport.kind = "response"

\* the sentinel C18 gives for a status, "nil" for none
SentinelOfStatus(status) ==
    CASE status = 400 -> ErrInvalidRequest
      [] status = 401 -> ErrUnauthorized
      [] status = 422 -> ErrValidation
      [] status = 429 -> ErrRateLimited
      [] status >= 500 -> ErrServerError
      [] OTHER -> "nil"

\* the error is an *APIError with this status that matches the status's
\* sentinel, or no sentinel when the status has none
IsAPIErrorOf(err, status) ==
    /\ IsAPIError(err)
    /\ err.StatusCode = status
    /\ \A sentinel \in Sentinels : Is(err, sentinel) <=> sentinel = SentinelOfStatus(status)

\* C18 as stated: every response with status >= 400 yields an *APIError with
\* that status, matching ErrInvalidRequest for 400, ErrUnauthorized for 401,
\* ErrValidation for 422, ErrRateLimited for 429, ErrServerError for >= 500
\* and no sentinel otherwise; a response with status < 400 yields no *APIError.
C18_StatusToError_AnyResponse ==
    GotResponse =>
       IF sendResult.transport.status >= 400
       THEN IsAPIErrorOf(sendResult.err, sendResult.transport.status)
       ELSE ~IsAPIError(sendResult.err)

\* C18, amended: the same for every response whose body Send could read (a
\* response whose body cannot be read yields a read error, whatever its status).
C18_StatusToError ==
    (GotResponse /\ ~sendResult.transport.readFails) =>
       IF sendResult.transport.status >= 400
       THEN IsAPIErrorOf(sendResult.err, sendResult.transport.status)
       ELSE ~IsAPIError(sendResult.err)

C18_Witness ==
    /\ GotResponse
    /\ ~sendResult.transport.readFails
    /\ sendResult.transport.status = 503
    /\ IsAPIError(sendResult.err)
    /\ sendResult.err.StatusCode = 503
    /\ Is(sendResult.err, ErrServerError)
    /\ sendResult.resp = Nil

\* the message of the first check that fails, in the order from, to, subject,
\* body; "" when none fails
FirstFailingCheck(b) ==
    IF b.payload.From = "" THEN "from address is required"
    ELSE IF b.payload.To = <<>> THEN "at least one recipient is required"
    ELSE IF b.payload.Subject = "" THEN "subject is required"
    ELSE IF b.payload.HTML = "" /\ b.payload.Text = ""
    THEN "either html or text body is required"
    ELSE ""

\* C19: if at Send time From is empty, or no recipient was added, or Subject
\* is empty, or HTML and Text are both empty, Send returns a nil response and
\* an error matching ErrInvalidRequest with the message of the first failing
\* check, and makes no HTTP request.
C19_Validation ==
    (Sent /\ (\/ builder.payload.From = ""
              \/ builder.payload.To = <<>>
              \/ builder.payload.Subject = ""
              \/ (builder.payload.HTML = "" /\ builder.payload.Text = ""))) =>
       /\ sendResult.resp = Nil
       /\ Is(sendResult.err, ErrInvalidRequest)
       /\ sendResult.err.msg = FirstFailingCheck(builder)
       /\ requests = <<>>

C19_Witness ==
    /\ Sent
    /\ builder.payload.From = "f"
    /\ builder.payload.To = <<>>
    /\ builder.payload.Subject = ""
    /\ builder.payload.HTML = "h"
    /\ sendResult.err = Errorf(ErrInvalidRequest, "at least one recipient is required")
    /\ requests = <<>>

\* C20: whenever the error Send returns matches ErrInvalidRequest, the
\* builder failed local validation and Send made no HTTP request.
C20_InvalidRequestIsLocal ==
    (Sent /\ Is(sendResult.err, ErrInvalidRequest)) =>
       FirstFailingCheck(builder) /= "" /\ requests = <<>>

\* C27: the tolerance gate is right over the whole integer range: for every
\* token timestamp T and every tolerance, a call that reaches the gate fails
\* with ErrWebhookTimestampExpired whenever the true |now - T| in seconds
\* exceeds the tolerance; no T makes the age computation wrap so that the
\* token passes.
C27_ToleranceGateNoWrap ==
    Verified =>
      LET sig == parseSignature(args.signature)
      IN (/\ args.signingSecret /= <<>>
          /\ args.signature /= <<>>
          /\ sig.err = NoError
          /\ args.deliveryTimestamp \in {0, sig.timestamp}
          /\ ~WithinTolerance(sig.timestamp, args.tolerance)) =>
            ErrorsIs(result.err, ErrWebhookTimestampExpired)

RECURSIVE IntegerOfDigits(_)
\* the number a string of decimal digits writes
IntegerOfDigits(d) ==
    IF Len(d) = 0 THEN 0
    ELSE 10 * IntegerOfDigits(SubSeq(d, 1, Len(d) - 1)) + DigitVal(d[Len(d)])

\* the number a base-10 integer writes
IntegerOf(s) ==
    IF s[1] = "-" THEN -IntegerOfDigits(Tail(s))
    ELSE IF s[1] = "+" THEN IntegerOfDigits(Tail(s))
    ELSE IntegerOfDigits(s)

\* the value of the token's only pair with this key
OnlyValue(signature, key) ==
    ValueAt(signature, CHOOSE i \in PairsWithKey(signature, key) : TRUE)

\* the token has one t pair with a non-zero integer and one v1 pair with a
\* non-empty value
OneTimestampOneHash(signature) ==
    /\ Cardinality(PairsWithKey(signature, STR_t)) = 1
    /\ Cardinality(PairsWithKey(signature, STR_v1)) = 1
    /\ IsDecimalInteger(OnlyValue(signature, STR_t))
    /\ ~IsZeroInteger(OnlyValue(signature, STR_t))
    /\ OnlyValue(signature, STR_v1) /= <<>>

\* parseSignature returns the token's timestamp and hash
ParsedAsWritten(signature) ==
    parseSignature(signature) =
       [timestamp |-> IntegerOf(OnlyValue(signature, STR_t)),
        hash |-> OnlyValue(signature, STR_v1), err |-> NoError]

\* C28 as stated: for every token with one t=<non-zero integer> pair and one
\* v1=<non-empty> pair, parseSignature returns that timestamp and hash,
\* whatever the order of the pairs, the pairs with other keys and the white
\* space around keys and values; a pair's value is all that follows its
\* first '='.
C28_OrderIndependent_AnyInteger ==
    (Verified /\ OneTimestampOneHash(args.signature)) => ParsedAsWritten(args.signature)

\* C28, amended: the same for every token whose t value is a non-zero integer
\* that a 64-bit signed integer holds (a t value beyond that range is
\* rejected as an invalid timestamp).
C28_OrderIndependent ==
    (Verified /\ OneTimestampOneHash(args.signature)
        /\ IntegerOf(OnlyValue(args.signature, STR_t)) \in MinInt..MaxInt) =>
       ParsedAsWritten(args.signature)

C28_Witness ==
    /\ Verified
    /\ Len(args.signature) > 0
    /\ args.signature[1] = " "
    /\ OneTimestampOneHash(args.signature)
    /\ parseSignature(args.signature).timestamp = StartNow
    /\ result.err = NoError

\* tokens whose t value writes the integer T otherwise, with the same v1
SameIntegerTokens(T, hash) ==
    LET v == <<",", "v", "1", "=">> \o hash
        abs == FormatInt(IF T < 0 THEN -T ELSE T)
        sign == IF T < 0 THEN <<"-">> ELSE <<>>
    IN { <<"t", "=">> \o FormatInt(T) \o v,
         <<"t", "=">> \o sign \o <<"0", "0">> \o abs \o v,
         <<" ", "t", " ", "=", " ">> \o FormatInt(T) \o <<" ">> \o v }
       \cup (IF T > 0 THEN { <<"t", "=", "+">> \o abs \o v } ELSE {})

\* C29: the signed string is built from the parsed timestamp, not from the
\* token's text: tokens whose t values parse to the same integer (t=7, t=007,
\* t=+7, " t = 7 ") and carry the same v1 get the same result for the same
\* payload, secret, delivery timestamp, tolerance and clock.
C29_ParsedTimestampSigned ==
    (Verified /\ tamper = NoTamper /\ parseSignature(args.signature).err = NoError) =>
       \A other \in SameIntegerTokens(parseSignature(args.signature).timestamp,
                                      parseSignature(args.signature).hash) :
          LET v == VerifyWebhook(other, args.payload, args.deliveryTimestamp,
                                 args.signingSecret, args.tolerance, now)
          IN v.event = result.event /\ v.err = result.err

C29_Witness ==
    /\ Verified
    /\ tamper = NoTamper
    /\ args.signature =
          <<"t", "=", "0">> \o Tail(Tail(generateTestSignature(args.payload, <<"k">>, now)))
    /\ args.signingSecret = <<"k">>
    /\ result.err = NoError

\* the Send call gave a request to the http client and that request timed out
TimedOut == Sent /\ requests /= <<>> /\ sendResult.transport.timedOut /= "no"

\* C21: whenever a Send request times out, by the deadline of the context
\* given to Email or by the timeout of the http client (WithTimeout, 30
\* seconds by default), Send returns an error that matches ErrTimeout.
C21_TimeoutIsErrTimeout == TimedOut => Is(sendResult.err, ErrTimeout)

\* C25: To, CC, BCC and ReplyTo accumulate: after any sequence of builder
\* calls each of the four lists is the concatenation, in call order, of the
\* arguments of the calls of its own method, and a call leaves the earlier
\* entries in place and every other payload field as it was.
C25_ListsAccumulate ==
    /\ \A f \in ListSetters : builder.payload[f] = said[f]
    /\ lastCall.method \notin {"none", "Email", "Send"} =>
          \A f \in DOMAIN builder.payload :
             IF f /= lastCall.method THEN builder.payload[f] = lastCall.before.payload[f]
             ELSE f \in ListSetters =>
                    builder.payload[f] = lastCall.before.payload[f] \o lastCall.arg

C25_Witness ==
    /\ lastCall.method = "CC"
    /\ lastCall.arg = <<"d">>
    /\ builder.payload.CC = <<"c", "d">>
    /\ builder.payload.From = "f"

\* C26: the request of Send has the Idempotency-Key header exactly when the
\* builder's key is not empty, with the value of the last IdempotencyKey
\* call; with no key or an empty key the request has no such header.
C26_IdempotencyKeyHeader ==
    (Sent /\ requests /= <<>>) =>
       IF said.key /= ""
       THEN /\ "Idempotency-Key" \in DOMAIN requests[1].header
            /\ requests[1].header["Idempotency-Key"] = said.key
       ELSE "Idempotency-Key" \notin DOMAIN requests[1].header

C26_Witness ==
    /\ Sent
    /\ requests /= <<>>
    /\ said.key = "l"
    /\ "Idempotency-Key" \in DOMAIN requests[1].header

NewReturned == newCall.pc = "returned"

\* the options of the call with this name, in call order
OptionsNamed(name) == SelectSeq(newCall.opts, LAMBDA o : o.option = name)

\* C22: New with an empty token returns a nil client and ErrInvalidAPIToken
\* itself and applies no option; New with a non-empty token returns a client
\* whose base URL is DefaultBaseURL and whose http timeout is 30 seconds
\* unless an option overrides them, and WithBaseURL(u) makes the base URL u.
C22_New ==
    NewReturned =>
       IF newCall.apiToken = ""
       THEN /\ newCall.client = Nil
            /\ newCall.err = Itself(ErrInvalidAPIToken)
            /\ httpClients = newCall.before
       ELSE /\ newCall.client /= Nil
            /\ newCall.err = NoError
            /\ newCall.client.apiToken = newCall.apiToken
            /\ newCall.client.baseURL =
                  IF OptionsNamed("WithBaseURL") = <<>> THEN DefaultBaseURL
                  ELSE OptionsNamed("WithBaseURL")[Len(OptionsNamed("WithBaseURL"))].baseURL
            /\ (OptionsNamed("WithTimeout") = <<>> /\ OptionsNamed("WithHTTPClient") = <<>>) =>
                  httpClients[newCall.client.httpClient].Timeout = DefaultTimeout

C22_Witness ==
    /\ NewReturned
    /\ newCall.apiToken = ""
    /\ Len(newCall.opts) = 2
    /\ newCall.opts[1].option = "WithHTTPClient"
    /\ newCall.opts[2].option = "WithTimeout"
    /\ httpClients[newCall.opts[1].httpClient].Timeout /= newCall.opts[2].timeout

\* C23: when New gets WithHTTPClient(c) and WithTimeout(d), the client it
\* returns uses c and the timeout of c is d, in whichever order the two
\* options are given.
C23_TimeoutOfCustomClient ==
    (/\ NewReturned
     /\ newCall.apiToken /= ""
     /\ Len(OptionsNamed("WithHTTPClient")) = 1
     /\ Len(OptionsNamed("WithTimeout")) = 1) =>
       /\ newCall.client.httpClient = OptionsNamed("WithHTTPClient")[1].httpClient
       /\ httpClients[newCall.client.httpClient].Timeout = OptionsNamed("WithTimeout")[1].timeout

\* the addresses, subject, text and idempotency key a request carries
RequestValues(r) ==
    {r.body.from, r.body.subject}
       \cup { r.body.to[i] : i \in 1..Len(r.body.to) }
       \cup (IF "text" \in DOMAIN r.body THEN {r.body.text} ELSE {})
       \cup (IF "Idempotency-Key" \in DOMAIN r.header
             THEN {r.header["Idempotency-Key"]} ELSE {})

\* C24: the client is safe for concurrent use: Email, the setters and Send
\* write no field of the client, each Email call gives a builder with a
\* payload of its own, and under every interleaving of the setter and Send
\* calls on two builders of one client the request each builder sends
\* carries only the values set on that builder.
C24_SharedClient ==
    /\ client = DefaultClient
    /\ \A p, q \in Procs :
          (p /= q /\ builders[p].pc = "building" /\ builders[q].pc = "building") =>
             builders[p].payload /= builders[q].payload
    /\ \A p \in Procs :
          sentBy[p] /= <<>> =>
             /\ Len(sentBy[p]) = 1
             /\ RequestValues(sentBy[p][1]) \subseteq setOn[p]
             /\ sentBy[p][1].header["x-lettermint-token"] = DefaultClient.apiToken

C24_Witness ==
    /\ sentBy["c1"] /= <<>>
    /\ sentBy["c2"] /= <<>>
    /\ sentBy["c1"][1].body.from = "f1"
    /\ sentBy["c2"][1].body.from = "f2"
    /\ "Idempotency-Key" \in DOMAIN sentBy["c1"][1].header
    /\ "Idempotency-Key" \notin DOMAIN sentBy["c2"][1].header
    /\ payloads["c2"].To = <<"t2", "t2">>

====
